---------------------------- MODULE Spec2Model ----------------------------
(***************************************************************************)
(* RK6006 bench power supply over BLE: the Modbus-RTU driver (rk6006.py)   *)
(* and the polling coordinator (coordinator.py).                           *)
(*                                                                         *)
(* Bytes are 0..255, frames are sequences of bytes.  A physical quantity   *)
(* (volts, amperes, ...) is an integer count of 1/Res of the register's    *)
(* quantization step, so that word / 100.0 is FromRaw(word) and            *)
(* int(value * 100) is ToRaw(value, 100), computed as Python computes it:  *)
(* in binary floating point with a significand of 53 bits.                 *)
(***************************************************************************)
EXTENDS Integers, Sequences, FiniteSets, TLC

(***************************************************************************)
(* Bounds of the model.                                                    *)
(***************************************************************************)
\* poll ticks start only while the consecutive-error counter is below this
MaxErrors == 4
\* with a setter in play, poll ticks start only while the counter is below this
MaxWriteErrors == 1
\* bytes in one notification: a whole BLE packet, or a short piece of one
MaxFrag == 20
MinFrag == 3
\* sub-steps of one quantization step in which physical values are counted
Res == 10
\* set_voltage is called with every multiple of 0.01 V up to this many
\* hundredths of a volt
MaxCentivolts == 6000
TempEdge == 40

(***************************************************************************)
(* Register map (rk6006.py, class constants).                              *)
(***************************************************************************)
REG_TEMP_EXT == 4
REG_TEMP_INT == 5
REG_VOLTAGE_SET == 8
REG_CURRENT_SET == 9
REG_VOLTAGE_READ == 10
REG_INPUT_VOLTAGE == 14
REG_PROTECTION == 16
REG_OUTPUT_MODE == 17
REG_OUTPUT_STATE == 18
REG_AH_H == 38
REG_TAKE_OUT == 67
REG_POWER_ON_BOOT == 68
REG_BUZZER == 69
REG_BACKLIGHT == 72
REG_OVP == 82
REG_OCP == 83
REG_MEMORY_BASE == 80

FUNC_READ == 3
FUNC_WRITE == 6
SLAVE_ID == 1
max_consecutive_errors == 3
\* Modbus exception code 3, illegal data value
EXC_ILLEGAL_VALUE == 3

(***************************************************************************)
(* Frame codec.                                                            *)
(***************************************************************************)
RECURSIVE Xor(_, _)
Xor(a, b) ==
    IF a = 0 THEN b
    ELSE IF b = 0 THEN a
    ELSE ((a + b) % 2) + 2 * Xor(a \div 2, b \div 2)

\* one pass of the inner loop of _calculate_crc16, polynomial 0xA001
CrcBit(crc) == IF crc % 2 = 1 THEN Xor(crc \div 2, 40961) ELSE crc \div 2

RECURSIVE CrcShift(_, _)
\* n passes of the inner loop (the test on c makes TLC evaluate c first)
CrcShift(crc, n) ==
    IF n = 0 THEN crc
    ELSE LET c == CrcBit(crc) IN IF c >= 0 THEN CrcShift(c, n - 1) ELSE c

RECURSIVE CrcFrom(_, _, _)
\* the outer loop over the bytes data[i..]
CrcFrom(crc, data, i) ==
    IF i > Len(data) THEN crc
    ELSE LET c == CrcShift(Xor(crc, data[i]), 8)
         IN  IF c >= 0 THEN CrcFrom(c, data, i + 1) ELSE c

calculate_crc16(data) == CrcFrom(65535, data, 1)

\* struct.pack('>BBHH', ...) accepts only values of the field's width
Packable(slave_id, function, register, value) ==
    /\ slave_id \in 0..255
    /\ function \in 0..255
    /\ register \in 0..65535
    /\ value \in 0..65535

build_modbus_command(slave_id, function, register, value) ==
    LET d == <<slave_id, function, register \div 256, register % 256,
               value \div 256, value % 256>>
        crc == calculate_crc16(d)
    IN  d \o <<crc % 256, crc \div 256>>


(***************************************************************************)
(* Unit conversion of the semantic layer.                                  *)
(***************************************************************************)
\* value / 100.0, value / 1000.0: the word as a physical quantity
FromRaw(word) == word * Res

(***************************************************************************)
(* Python floats: a positive float is [m, point], m its significand as a   *)
(* sequence of MantBits bits, most significant (a 1) first, of which       *)
(* point stand before the binary point (point may be 0 or negative).       *)
(***************************************************************************)
MantBits == 53

\* the bits of a natural number, most significant first, <<>> for 0
RECURSIVE IntBits(_)
IntBits(n) == IF n = 0 THEN <<>> ELSE Append(IntBits(n \div 2), n % 2)

RECURSIVE BitsToInt(_, _, _)
BitsToInt(bits, i, acc) ==
    IF i > Len(bits) THEN acc ELSE BitsToInt(bits, i + 1, 2 * acc + bits[i])

\* bits + 1, of the same length; all ones wrap to all zeros
RECURSIVE Increment(_, _)
Increment(bits, i) ==
    IF i = 0 THEN bits
    ELSE IF bits[i] = 0 THEN [bits EXCEPT ![i] = 1]
    ELSE Increment([bits EXCEPT ![i] = 0], i - 1)

\* round to nearest, ties to even: head are the MantBits leading bits, guard
\* the next bit, sticky whether anything non-zero follows
RoundToFloat(head, guard, sticky, point) ==
    IF guard = 1 /\ (sticky \/ head[MantBits] = 1)
    THEN IF \A i \in 1..MantBits : head[i] = 1
         THEN [m |-> [i \in 1..MantBits |-> IF i = 1 THEN 1 ELSE 0],
               point |-> point + 1]
         ELSE [m |-> Increment(head, MantBits), point |-> point]
    ELSE [m |-> head, point |-> point]

\* the leading bits of r / den (r < den) appended to acc, by long division,
\* until acc holds MantBits + 1 bits; leading zeros move the point
RECURSIVE Expand(_, _, _, _)
Expand(r, den, acc, point) ==
    IF Len(acc) = MantBits + 1
    THEN RoundToFloat(SubSeq(acc, 1, MantBits), acc[MantBits + 1], r # 0, point)
    ELSE LET b == IF 2 * r >= den THEN 1 ELSE 0
             r2 == 2 * r - b * den
             next == Append(acc, b)
         IN  IF r2 >= 0 /\ acc = <<>> /\ b = 0
             THEN Expand(r2, den, acc, point - 1)
             ELSE IF Len(next) > 0 THEN Expand(r2, den, next, point)
             ELSE [m |-> next, point |-> point]

\* the float nearest to num / den (num > 0): a float literal, or a true
\* division of two integers
FloatOf(num, den) ==
    LET lead == IntBits(num \div den)
    IN  Expand(num % den, den, lead, Len(lead))

\* bits times the small natural c, as bits
RECURSIVE MulBits(_, _, _, _, _)
MulBits(bits, i, c, carry, acc) ==
    IF i = 0 THEN IntBits(carry) \o acc
    ELSE LET t == bits[i] * c + carry
             next == <<t % 2>> \o acc
         IN  IF Len(next) > 0 THEN MulBits(bits, i - 1, c, t \div 2, next) ELSE next

\* float * int: the exact product rounded to the nearest float
FloatTimes(f, c) ==
    LET prod == MulBits(f.m, MantBits, c, 0, <<>>)
        extra == Len(prod) - MantBits
    IN  IF extra = 0 THEN f
        ELSE RoundToFloat(SubSeq(prod, 1, MantBits), prod[MantBits + 1],
                          \E i \in (MantBits + 2)..Len(prod) : prod[i] = 1,
                          f.point + extra)

\* int(f): truncation toward zero (floats below 2^MantBits)
FloatToInt(f) ==
    IF f.point <= 0 THEN 0 ELSE BitsToInt(SubSeq(f.m, 1, f.point), 1, 0)

\* int(voltage * 100), int(current * 1000): value counts 1/Res of the
\* register's step, so the float passed is value / (scale * Res)
ToRaw(value, scale) ==
    IF value = 0 THEN 0
    ELSE FloatToInt(FloatTimes(FloatOf(value, scale * Res), scale))
\* A 32-bit quantity is the pair <<high, low>> of its base-65536 digits: its
\* value high * 65536 + low does not fit the integers of the checker.
\* the combination with the words exchanged
Combine32Swapped(high, low) == <<low % 65536, high % 65536>>

\* (values[0] << 16) | values[1], for 16-bit words
Combine32(high, low) == <<high % 65536, low % 65536>>

\* power_raw / 100.0, ah / 1000.0: the 32-bit quantity as a physical
\* quantity, digit by digit with the carry
FromRawWide(wide) ==
    <<wide[1] * Res + (wide[2] * Res) \div 65536, (wide[2] * Res) % 65536>>
\* the value of an absent reading (Python None); never a register word
Absent == -1

(***************************************************************************)
(* The device: a register file answering Modbus requests.                  *)
(***************************************************************************)
RegAddrs == {4, 5, 6} \cup (8..14) \cup {16, 17, 18} \cup (38..41)
              \cup {67, 68, 69, 72} \cup (80..119)

InitReg ==
    [a \in RegAddrs |->
        CASE a = 4 -> 31   [] a = 5 -> 27   [] a = 6 -> 65535
          [] a = 8 -> 500  [] a = 9 -> 1000 [] a = 10 -> 499
          [] a = 11 -> 250 [] a = 12 -> 0   [] a = 13 -> 124
          [] a = 14 -> 1201
          [] a = 16 -> 0   [] a = 17 -> 1   [] a = 18 -> 0
          [] a = 38 -> 0   [] a = 39 -> 7   [] a = 40 -> 0 [] a = 41 -> 9
          [] a = 67 -> 0   [] a = 68 -> 0   [] a = 69 -> 1
          [] a = 72 -> 3   [] a = 82 -> 6200 [] a = 83 -> 6100
          [] a = 80 -> 330 [] a = 81 -> 500
          [] OTHER -> CASE (a - 80) % 4 = 0 -> 420 + a
                        [] (a - 80) % 4 = 1 -> 1000 + a
                        [] (a - 80) % 4 = 2 -> 6000 - a
                        [] OTHER -> 6000 + a]

RegWord(r, a) == IF a \in DOMAIN r THEN r[a] ELSE 0

RECURSIVE WordBytes(_, _, _)
WordBytes(r, a, count) ==
    IF count = 0 THEN <<>>
    ELSE <<RegWord(r, a) \div 256, RegWord(r, a) % 256>> \o WordBytes(r, a + 1, count - 1)

\* the device's reply to a read request: [slave, 0x03, byte count, data.., crc lo, crc hi]
ReadReply(r, frame) ==
    LET a == frame[3] * 256 + frame[4]
        count == frame[5] * 256 + frame[6]
        d == <<frame[1], FUNC_READ, 2 * count>> \o WordBytes(r, a, count)
        crc == calculate_crc16(d)
    IN  d \o <<crc % 256, crc \div 256>>

\* the device executes one request frame: new register file and reply bytes
DeviceExchange(r, frame) ==
    LET a == frame[3] * 256 + frame[4]
        v == frame[5] * 256 + frame[6]
    IN  IF frame[2] = FUNC_READ
        THEN [reg |-> r, reply |-> ReadReply(r, frame)]
        ELSE [reg |-> IF a \in DOMAIN r THEN [r EXCEPT ![a] = v] ELSE r,
              reply |-> frame]


(***************************************************************************)
(* Response reassembler and response parsing (rk6006.py).                  *)
(***************************************************************************)
\* a completion test that leaves the two CRC bytes out of the expected length
ResponseCompleteNoCrc(buf) ==
    /\ Len(buf) >= 5
    /\ IF buf[2] = FUNC_READ THEN Len(buf) >= 3 + buf[3]
       ELSE IF buf[2] = FUNC_WRITE THEN Len(buf) >= 8
       ELSE TRUE

\* a completion test that waits for 8 bytes whatever the function code
ResponseCompleteEight(buf) ==
    /\ Len(buf) >= 5
    /\ IF buf[2] = FUNC_READ THEN Len(buf) >= 5 + buf[3]
       ELSE Len(buf) >= 8

\* _notification_handler: whether the accumulated buffer sets response_event
ResponseComplete(buf) ==
    /\ Len(buf) >= 5
    /\ IF buf[2] = FUNC_READ THEN Len(buf) >= 5 + buf[3]
       ELSE IF buf[2] = FUNC_WRITE THEN Len(buf) >= 8
       ELSE TRUE

\* read_register: the acceptance test of a response
ReadResponseValid(resp, count) ==
    /\ Len(resp) >= 5
    /\ resp[3] = count * 2
    /\ Len(resp) >= 3 + resp[3] + 2

\* read_register: the decoded big-endian words
ReadValues(resp, count) ==
    [i \in 1..count |-> resp[2 + 2 * i] * 256 + resp[3 + 2 * i]]

\* write_register: the acceptance test of a response
WriteResponseValid(resp) == Len(resp) >= 8

(***************************************************************************)
(* The poll cycle's reads, in order (coordinator.py, rk6006.py getters).   *)
(***************************************************************************)
\* a cycle that asks for power-on-boot before the buzzer
ReadPlanBuzzerLate ==
    << <<REG_VOLTAGE_READ, 4>>, <<REG_VOLTAGE_SET, 2>>, <<REG_TEMP_INT, 2>>,
       <<REG_INPUT_VOLTAGE, 1>>, <<REG_OVP, 2>>, <<REG_PROTECTION, 1>>,
       <<REG_AH_H, 4>>, <<REG_BACKLIGHT, 1>>, <<REG_OUTPUT_STATE, 1>>,
       <<REG_OUTPUT_MODE, 1>>, <<REG_POWER_ON_BOOT, 1>>, <<REG_BUZZER, 1>>,
       <<REG_TAKE_OUT, 1>> >>

ReadPlan ==
    << <<REG_VOLTAGE_READ, 4>>,    \* get_status
       <<REG_VOLTAGE_SET, 2>>,     \* get_settings
       <<REG_TEMP_INT, 2>>,        \* get_temperature
       <<REG_INPUT_VOLTAGE, 1>>,   \* get_input_voltage
       <<REG_OVP, 2>>,             \* get_protection_settings
       <<REG_PROTECTION, 1>>,      \* get_protection_status
       <<REG_AH_H, 4>>,            \* get_energy_counters
       <<REG_BACKLIGHT, 1>>,       \* get_backlight
       <<REG_OUTPUT_STATE, 1>>,    \* read_register(REG_OUTPUT_STATE)
       <<REG_OUTPUT_MODE, 1>>,     \* get_output_mode
       <<REG_BUZZER, 1>>,          \* get_buzzer
       <<REG_POWER_ON_BOOT, 1>>,   \* get_power_on_boot
       <<REG_TAKE_OUT, 1>>         \* get_take_out
    >>

NumReads == Len(ReadPlan)

ReadCommand(k) ==
    build_modbus_command(SLAVE_ID, FUNC_READ, ReadPlan[k][1], ReadPlan[k][2])

\* get_protection_status
ProtectionName(word) ==
    IF word = 0 THEN "none"
    ELSE IF word = 1 THEN "ovp"
    ELSE IF word = 2 THEN "ocp"
    ELSE "unknown"

\* get_temperature: the external probe reads 65535 when not plugged in
\* a sentinel test that lets the word 65000 through
ExternalTempPast(word) == IF word <= 65000 THEN word ELSE Absent

\* line 388: float(values[1]) if values[1] < 65000 else None
ExternalTemp(word) == IF word < 65000 THEN word ELSE Absent

Keys ==
    {"voltage", "current", "power", "voltage_set", "current_set",
     "temp_internal", "temp_external", "input_voltage", "ovp", "ocp",
     "protection_status", "ovp_triggered", "ocp_triggered", "amp_hours",
     "watt_hours", "backlight", "output_enabled", "output_mode", "buzzer",
     "power_on_boot", "take_out"}

\* the snapshot assembled from the values of the 13 reads (g[k] are the
\* words returned by the k-th read)
Snapshot(g) ==
    [k \in Keys |->
        CASE k = "voltage" -> FromRaw(g[1][1])
          [] k = "current" -> FromRaw(g[1][2])
          [] k = "power" -> FromRawWide(Combine32(g[1][3], g[1][4]))
          [] k = "voltage_set" -> FromRaw(g[2][1])
          [] k = "current_set" -> FromRaw(g[2][2])
          [] k = "temp_internal" -> g[3][1]
          [] k = "temp_external" -> ExternalTemp(g[3][2])
          [] k = "input_voltage" -> FromRaw(g[4][1])
          [] k = "ovp" -> FromRaw(g[5][1])
          [] k = "ocp" -> FromRaw(g[5][2])
          [] k = "protection_status" -> ProtectionName(g[6][1])
          [] k = "ovp_triggered" -> (g[6][1] = 1)
          [] k = "ocp_triggered" -> (g[6][1] = 2)
          [] k = "amp_hours" -> FromRawWide(Combine32(g[7][1], g[7][2]))
          [] k = "watt_hours" -> FromRawWide(Combine32(g[7][3], g[7][4]))
          [] k = "backlight" -> g[8][1]
          [] k = "output_enabled" -> (g[9][1] # 0)
          [] k = "output_mode" -> (IF g[10][1] = 1 THEN "CC" ELSE "CV")
          [] k = "buzzer" -> (g[11][1] # 0)
          [] k = "power_on_boot" -> (g[12][1] # 0)
          [] k = "take_out" -> (g[13][1] # 0)]

(***************************************************************************)
(* The coordinator's setters (coordinator.py, the async_set_ methods).     *)
(***************************************************************************)
SetOps ==
    {"voltage", "current", "ovp", "ocp", "backlight", "output", "buzzer",
     "power_on_boot", "take_out"}

\* the setter of the runs with two callers of _send_command
RaceOps == {"voltage"}

\* the factor between a physical quantity and its register word:
\* 0.01 V per step for voltages, 0.001 A per step for currents
Scale(op) == IF op \in {"voltage", "ovp"} THEN 100 ELSE 1000

NumericOps == {"voltage", "current", "ovp", "ocp"}

\* the arguments a setter is called with
SetArgs(op) ==
    CASE op = "voltage" -> {12345}
      [] op = "current" -> {20000}
      [] op = "ovp" -> {61000}
      [] op = "ocp" -> {60005}
      [] op = "backlight" -> {5, 6}
      [] OTHER -> BOOLEAN

\* the register a setter writes
SetReg(op) ==
    CASE op = "voltage" -> REG_VOLTAGE_SET
      [] op = "current" -> REG_CURRENT_SET
      [] op = "ovp" -> REG_OVP
      [] op = "ocp" -> REG_OCP
      [] op = "backlight" -> REG_BACKLIGHT
      [] op = "output" -> REG_OUTPUT_STATE
      [] op = "buzzer" -> REG_BUZZER
      [] op = "power_on_boot" -> REG_POWER_ON_BOOT
      [] op = "take_out" -> REG_TAKE_OUT

\* the word a setter writes for its argument
SetWord(op, arg) ==
    IF op \in NumericOps THEN ToRaw(arg, Scale(op))
    ELSE IF op = "backlight" THEN arg
    ELSE IF arg THEN 1 ELSE 0

\* the snapshot key a setter patches
SetKey(op) ==
    CASE op = "voltage" -> "voltage_set"
      [] op = "current" -> "current_set"
      [] op = "ovp" -> "ovp"
      [] op = "ocp" -> "ocp"
      [] op = "backlight" -> "backlight"
      [] op = "output" -> "output_enabled"
      [] op = "buzzer" -> "buzzer"
      [] op = "power_on_boot" -> "power_on_boot"
      [] op = "take_out" -> "take_out"

\* set_backlight rejects a level outside 0..5; struct.pack rejects a word
\* outside 16 bits: both before any I/O
SetArgAccepted(op, arg) ==
    /\ op = "backlight" => arg \in 0..5
    /\ Packable(SLAVE_ID, FUNC_WRITE, SetReg(op), SetWord(op, arg))

WriteCommand(op, arg) ==
    build_modbus_command(SLAVE_ID, FUNC_WRITE, SetReg(op), SetWord(op, arg))

(***************************************************************************)
(* RK6006.save_memory / recall_memory: operations of several commands.     *)
(* save_memory is called with the slot only, so it reads the set points    *)
(* and the protection limits and writes the four of them to the slot;      *)
(* recall_memory is called with apply=True, so it reads the slot and       *)
(* applies the four values with set_voltage, set_current, set_ovp, set_ocp.*)
(***************************************************************************)
MemOps == {"save_memory", "recall_memory"}

\* a slot check that lets slot 10 through
SlotAcceptedToTen(slot) == slot \in 0..10

\* if not 0 <= slot <= 9: raise ValueError
SlotAccepted(slot) == slot \in 0..9

\* slots laid out three registers apart
MemBaseOverlapping(slot) == REG_MEMORY_BASE + slot * 3

\* lines 509, 532: base_addr = self.REG_MEMORY_BASE + (slot * 4)
MemBase(slot) == REG_MEMORY_BASE + slot * 4

\* the number of commands of the operation
MemPlanLen(op) == IF op = "save_memory" THEN 6 ELSE 5

\* the k-th command of the operation is a read of this many registers (0: a write)
MemReadCount(op, k) ==
    IF op = "save_memory" THEN (IF k <= 2 THEN 2 ELSE 0)
    ELSE (IF k = 1 THEN 4 ELSE 0)

\* the value a read word stands for and the word written back for it
MemWord(word, scale) == ToRaw(FromRaw(word), scale)

\* the command that follows the results g of the commands so far
MemCommand(op, slot, g) ==
    LET k == Len(g) + 1
        base == MemBase(slot)
    IN  IF op = "save_memory"
        THEN CASE k = 1 -> build_modbus_command(SLAVE_ID, FUNC_READ, REG_VOLTAGE_SET, 2)
               [] k = 2 -> build_modbus_command(SLAVE_ID, FUNC_READ, REG_OVP, 2)
               [] k = 3 -> build_modbus_command(SLAVE_ID, FUNC_WRITE, base,
                                                MemWord(g[1][1], 100))
               [] k = 4 -> build_modbus_command(SLAVE_ID, FUNC_WRITE, base + 1,
                                                MemWord(g[1][2], 1000))
               [] k = 5 -> build_modbus_command(SLAVE_ID, FUNC_WRITE, base + 2,
                                                MemWord(g[2][1], 100))
               [] OTHER -> build_modbus_command(SLAVE_ID, FUNC_WRITE, base + 3,
                                                MemWord(g[2][2], 1000))
        ELSE CASE k = 1 -> build_modbus_command(SLAVE_ID, FUNC_READ, base, 4)
               [] k = 2 -> build_modbus_command(SLAVE_ID, FUNC_WRITE, REG_VOLTAGE_SET,
                                                MemWord(g[1][1], 100))
               [] k = 3 -> build_modbus_command(SLAVE_ID, FUNC_WRITE, REG_CURRENT_SET,
                                                MemWord(g[1][2], 1000))
               [] k = 4 -> build_modbus_command(SLAVE_ID, FUNC_WRITE, REG_OVP,
                                                MemWord(g[1][3], 100))
               [] OTHER -> build_modbus_command(SLAVE_ID, FUNC_WRITE, REG_OCP,
                                                MemWord(g[1][4], 1000))


(***************************************************************************)
(* State.                                                                  *)
(***************************************************************************)
VARIABLES
    \* RK6006Coordinator
    connection_enabled,   \* _connection_enabled
    connected,            \* _connected
    consecutive_errors,   \* _consecutive_errors
    data,                 \* DataUpdateCoordinator.data: <<>> is None, <<d>> a dict d
    refresh_requested,    \* async_request_refresh has been called and not yet served
    \* RK6006
    response_data,        \* the accumulation buffer
    response_event,       \* asyncio.Event: set or clear
    client,               \* self.client: "none", "open" (is_connected) or "closed"
    \* the device and the link
    reg,                  \* the device's register file
    air,                  \* reply bytes sent by the device and not yet notified
    \* the two callers of the driver: "poll" (_async_update_data) and "set" (a setter)
    pc,                   \* where each caller is suspended
    response,             \* the bytes _send_command captured for each caller
    got,                  \* poll: the values returned by the reads so far
    set_op,               \* the setter the user calls ("none": no setter is called)
    set_arg,              \* with this argument
    set_got,              \* a memory operation: the results of its commands so far
    dis_pc,               \* async_disable_connection, async_shutdown: "idle" or in the await
    \* history
    sent,                 \* the reply the device sent to each caller's current command
    result,               \* outcome of the last poll tick
    streak,               \* failing poll cycles since the last success or enable
    set_result,           \* outcome of the last setter call
    dis_attempted,        \* the last disable called client.disconnect()
    setup                 \* async_setup_entry: "none", "refreshing", "ready" or "not_ready"

vars ==
    <<connection_enabled, connected, consecutive_errors, data, refresh_requested,
      response_data, response_event, client, reg, air, pc, response, got,
      set_op, set_arg, set_got, dis_pc, sent, result, streak, set_result,
      dis_attempted, setup>>

coordVars == <<connection_enabled, connected, consecutive_errors, data, refresh_requested>>
driverVars == <<response_data, response_event, client>>
deviceVars == <<reg, air>>
taskVars == <<pc, response, got, sent>>
pollHist == <<result, streak>>
setVars == <<set_op, set_arg, set_got, set_result>>
disVars == <<dis_pc, dis_attempted, setup>>

Tasks == {"poll", "set"}
EmptyDict == [k \in {} |-> 0]
NoData == <<>>
\* Python truthiness of self.data: neither None nor an empty dict
Truthy(d) == d # NoData /\ DOMAIN d[1] # {}
\* sizes of the notification fragments the link delivers
FragSizes == {MinFrag, MaxFrag}

\* the state after RK6006Coordinator.__init__ and RK6006.__init__
Start(enabled, op, arg) ==
    /\ connection_enabled = enabled
    /\ connected = FALSE
    /\ consecutive_errors = 0
    /\ data = NoData
    /\ refresh_requested = FALSE
    /\ response_data = <<>>
    /\ response_event = FALSE
    /\ client = "none"
    /\ reg = InitReg
    /\ air = <<>>
    /\ pc = [t \in Tasks |-> "idle"]
    /\ response = [t \in Tasks |-> <<>>]
    /\ got = <<>>
    /\ set_op = op
    /\ set_arg = arg
    /\ set_got = <<>>
    /\ dis_pc = "idle"
    /\ sent = [t \in Tasks |-> <<>>]
    /\ result = [kind |-> "none", nth |-> 0]
    /\ streak = 0
    /\ set_result = "none"
    /\ dis_attempted = FALSE
    /\ setup = "none"

\* the coordinator connected and idle on an open channel, with snapshot d,
\* the device holding registers r, and a caller about to call op(arg)
Ready(r, d, op, arg) ==
    /\ connection_enabled = TRUE
    /\ connected = TRUE
    /\ consecutive_errors = 0
    /\ data = d
    /\ refresh_requested = FALSE
    /\ response_data = <<>>
    /\ response_event = FALSE
    /\ client = "open"
    /\ reg = r
    /\ air = <<>>
    /\ pc = [t \in Tasks |-> "idle"]
    /\ response = [t \in Tasks |-> <<>>]
    /\ got = <<>>
    /\ set_op = op
    /\ set_arg = arg
    /\ set_got = <<>>
    /\ dis_pc = "idle"
    /\ sent = [t \in Tasks |-> <<>>]
    /\ result = [kind |-> "none", nth |-> 0]
    /\ streak = 0
    /\ set_result = "none"
    /\ dis_attempted = FALSE
    /\ setup = "none"

\* the persisted connection-enabled flag is either value; no setter is called
Init == \E enabled \in BOOLEAN : Start(enabled, "none", 0)

(***************************************************************************)
(* RK6006._send_command, the part shared by both callers.                  *)
(***************************************************************************)
\* the command frame caller t has dispatched
Command(t) ==
    IF t = "poll" THEN ReadCommand(Len(got) + 1)
    ELSE IF set_op \in MemOps THEN MemCommand(set_op, set_arg, set_got)
    ELSE WriteCommand(set_op, set_arg)

\* lines 209-212: clear the buffer and the event, start the write
SendStart(t) ==
    /\ response_data' = <<>>
    /\ response_event' = FALSE
    /\ pc' = [pc EXCEPT ![t] = "write"]

\* write_gatt_char returns and the caller enters
\* wait_for(response_event.wait()).  heard: the frame has reached the device,
\* which executes it and sends its reply; otherwise the frame is lost on the
\* radio and the device stays silent
WriteCompletes(t, heard) ==
    /\ pc[t] = "write"
    /\ client = "open"
    /\ LET x == DeviceExchange(reg, Command(t))
       IN  IF heard
           THEN /\ reg' = x.reg
                /\ air' = air \o x.reply
                /\ sent' = [sent EXCEPT ![t] = x.reply]
           ELSE UNCHANGED <<reg, air, sent>>
    /\ pc' = [pc EXCEPT ![t] = IF response_event THEN "woken" ELSE "wait"]
    /\ UNCHANGED <<coordVars, driverVars, response, got, setVars, disVars,
                   pollHist>>

\* the device refuses the frame: it answers with a Modbus exception frame
\* (function code with the high bit set, one exception code, CRC) and
\* changes no register
ExceptionReply(frame) ==
    LET head == <<frame[1], frame[2] + 128, EXC_ILLEGAL_VALUE>>
        crc == calculate_crc16(head)
    IN  head \o <<crc % 256, crc \div 256>>

WriteRefused(t) ==
    /\ pc[t] = "write"
    /\ client = "open"
    /\ air' = air \o ExceptionReply(Command(t))
    /\ sent' = [sent EXCEPT ![t] = ExceptionReply(Command(t))]
    /\ pc' = [pc EXCEPT ![t] = IF response_event THEN "woken" ELSE "wait"]
    /\ UNCHANGED <<coordVars, driverVars, reg, response, got, setVars, disVars,
                   pollHist>>

\* a wait without a timeout
WaitsForever(t) ==
    /\ pc[t] = "wait"
    /\ FALSE

\* wait_for gives up after the timeout: no reply bytes are on their way (the
\* link lost them, or they were handed to another command)
TimesOut(t) ==
    /\ pc[t] = "wait"
    /\ air = <<>>

\* the event was set for this waiter: response = bytes(self.response_data)
Resume(t) ==
    /\ pc[t] = "woken"
    /\ response' = [response EXCEPT ![t] = response_data]
    /\ pc' = [pc EXCEPT ![t] = "sleep"]
    /\ UNCHANGED <<coordVars, driverVars, deviceVars, got, sent, setVars, disVars,
                   pollHist>>

(***************************************************************************)
(* RK6006._notification_handler and the link.                              *)
(***************************************************************************)
\* one notification fragment of at most n bytes reaches the handler
Notify(n) ==
    /\ air # <<>>
    /\ client = "open"
    /\ LET m == IF n < Len(air) THEN n ELSE Len(air)
           buf == response_data \o SubSeq(air, 1, m)
       IN  /\ response_data' = buf
           /\ air' = SubSeq(air, m + 1, Len(air))
           /\ response_event' = (response_event \/ ResponseComplete(buf))
           /\ pc' = [t \in Tasks |->
                        IF pc[t] = "wait" /\ ResponseComplete(buf)
                        THEN "woken" ELSE pc[t]]
    /\ UNCHANGED <<coordVars, client, reg, response, got, sent, setVars, disVars,
                   pollHist>>

\* the load on the supply changes: the measured output voltage moves
LoadChanges ==
    /\ reg[REG_VOLTAGE_READ] = InitReg[REG_VOLTAGE_READ]
    /\ reg' = [reg EXCEPT ![REG_VOLTAGE_READ] = @ - 1]
    /\ UNCHANGED <<coordVars, driverVars, air, taskVars, setVars, disVars,
                   pollHist>>

\* the BLE link drops: is_connected becomes false, bytes in flight are lost
LinkDrop ==
    /\ client = "open"
    /\ client' = "closed"
    /\ air' = <<>>
    /\ UNCHANGED <<coordVars, response_data, response_event, reg, taskVars,
                   setVars, disVars, pollHist>>

(***************************************************************************)
(* RK6006Coordinator._async_update_data: one poll tick.  The host's        *)
(* scheduler runs one tick at a time and stores the returned snapshot in   *)
(* data; UpdateFailed leaves data as it was.                               *)
(***************************************************************************)
\* a counter that starts over once the failure has been surfaced
NextErrorsWraps(n) == IF n >= max_consecutive_errors THEN 0 ELSE n + 1

\* line 103: self._consecutive_errors += 1
NextErrors(n) == n + 1

\* a threshold test with > for >=
ThresholdReachedLate(n) == n > max_consecutive_errors

\* line 115: if self._consecutive_errors >= self._max_consecutive_errors
ThresholdReached(n) == n >= max_consecutive_errors

\* a fallback that always returns {}
FallbackEmpty(d) == <<EmptyDict>>

\* line 119: return self.data if self.data else {}
FallbackData(d) == IF Truthy(d) THEN d ELSE <<EmptyDict>>

\* an except branch without line 111: the coordinator stays Connected
PollFailStaysConnected ==
    /\ consecutive_errors' = NextErrors(consecutive_errors)
    /\ streak' = streak + 1
    /\ IF ThresholdReached(NextErrors(consecutive_errors))
       THEN /\ data' = data
            /\ result' = [kind |-> "failed", nth |-> streak + 1]
       ELSE /\ data' = FallbackData(data)
            /\ result' = [kind |-> "stale", nth |-> streak + 1]
    /\ pc' = [pc EXCEPT !["poll"] = "idle"]
    /\ got' = <<>>
    /\ response' = [response EXCEPT !["poll"] = <<>>]
    /\ sent' = [sent EXCEPT !["poll"] = <<>>]
    /\ UNCHANGED <<connection_enabled, connected, refresh_requested>>

\* lines 102-119: the except branch
PollFail ==
    /\ consecutive_errors' = NextErrors(consecutive_errors)
    /\ connected' = FALSE
    /\ streak' = streak + 1
    /\ IF ThresholdReached(NextErrors(consecutive_errors))
       THEN /\ data' = data
            /\ result' = [kind |-> "failed", nth |-> streak + 1]
       ELSE /\ data' = FallbackData(data)
            /\ result' = [kind |-> "stale", nth |-> streak + 1]
    /\ pc' = [pc EXCEPT !["poll"] = "idle"]
    /\ got' = <<>>
    /\ response' = [response EXCEPT !["poll"] = <<>>]
    /\ sent' = [sent EXCEPT !["poll"] = <<>>]
    /\ UNCHANGED <<connection_enabled, refresh_requested>>

\* a success branch without line 73
PollSucceedKeepsErrors(g) ==
    /\ data' = <<Snapshot(g)>>
    /\ result' = [kind |-> "ok", nth |-> streak]
    /\ streak' = 0
    /\ pc' = [pc EXCEPT !["poll"] = "idle"]
    /\ got' = <<>>
    /\ response' = [response EXCEPT !["poll"] = <<>>]
    /\ sent' = [sent EXCEPT !["poll"] = <<>>]
    /\ UNCHANGED <<connection_enabled, connected, consecutive_errors,
                   refresh_requested>>

\* lines 72-100: all reads returned
PollSucceed(g) ==
    /\ consecutive_errors' = 0
    /\ data' = <<Snapshot(g)>>
    /\ result' = [kind |-> "ok", nth |-> streak]
    /\ streak' = 0
    /\ pc' = [pc EXCEPT !["poll"] = "idle"]
    /\ got' = <<>>
    /\ response' = [response EXCEPT !["poll"] = <<>>]
    /\ sent' = [sent EXCEPT !["poll"] = <<>>]
    /\ UNCHANGED <<connection_enabled, connected, refresh_requested>>

\* a tick whose disabled check sits inside the try block: the except branch
\* marks the coordinator disconnected
PollTickInsideTry ==
    /\ pc["poll"] = "idle"
    /\ refresh_requested' = FALSE
    /\ IF ~connection_enabled
       THEN /\ result' = [kind |-> "disabled", nth |-> streak]
            /\ connected' = FALSE
            /\ UNCHANGED <<response_data, response_event, pc>>
       ELSE /\ consecutive_errors < MaxErrors
            /\ result' = [kind |-> "running", nth |-> streak]
            /\ UNCHANGED connected
            /\ IF ~connected
               THEN /\ pc' = [pc EXCEPT !["poll"] = "connect"]
                    /\ UNCHANGED <<response_data, response_event>>
               ELSE SendStart("poll")
    /\ UNCHANGED <<connection_enabled, consecutive_errors, data, client,
                   deviceVars, response, got, sent, setVars, disVars, streak>>

\* a tick that calls connect() whatever the connection state is
PollTickAlwaysConnects ==
    /\ pc["poll"] = "idle"
    /\ refresh_requested' = FALSE
    /\ IF ~connection_enabled
       THEN /\ result' = [kind |-> "disabled", nth |-> streak]
            /\ UNCHANGED pc
       ELSE /\ consecutive_errors < MaxErrors
            /\ result' = [kind |-> "running", nth |-> streak]
            /\ pc' = [pc EXCEPT !["poll"] = "connect"]
    /\ UNCHANGED <<connection_enabled, connected, consecutive_errors, data,
                   driverVars, deviceVars, response, got, sent, setVars, disVars,
                   streak>>

\* lines 41-50: the tick starts
PollTick ==
    /\ pc["poll"] = "idle"
    /\ refresh_requested' = FALSE
    /\ IF ~connection_enabled
       THEN /\ result' = [kind |-> "disabled", nth |-> streak]
            /\ UNCHANGED <<response_data, response_event, pc>>
       ELSE /\ consecutive_errors < MaxErrors
            /\ result' = [kind |-> "running", nth |-> streak]
            /\ IF ~connected
               THEN /\ pc' = [pc EXCEPT !["poll"] = "connect"]
                    /\ UNCHANGED <<response_data, response_event>>
               ELSE SendStart("poll")
    /\ UNCHANGED <<connection_enabled, connected, consecutive_errors, data, client,
                   deviceVars, response, got, sent, setVars, disVars, streak>>

\* device.connect() returns (lines 50-56) or raises
PollConnect(ok) ==
    /\ pc["poll"] = "connect"
    /\ IF ok
       THEN /\ client' = "open"
            /\ air' = <<>>
            /\ connected' = TRUE
            /\ SendStart("poll")
            /\ dis_pc' = (IF dis_pc = "disconnecting" THEN "disconnecting_old" ELSE dis_pc)
            /\ UNCHANGED <<connection_enabled, consecutive_errors, data,
                           refresh_requested, response, got, sent, pollHist>>
       ELSE /\ PollFail
            /\ UNCHANGED <<driverVars, air, dis_pc>>
    /\ UNCHANGED <<reg, setVars, dis_attempted, setup>>

PollWriteCompletes == \E heard \in BOOLEAN : WriteCompletes("poll", heard)

\* write_gatt_char raises: the channel is not connected
PollWriteFails ==
    /\ pc["poll"] = "write"
    /\ client # "open"
    /\ PollFail
    /\ UNCHANGED <<driverVars, deviceVars, setVars, disVars>>

\* wait_for raises TimeoutError: "Command timeout - no response received"
PollTimeout ==
    /\ TimesOut("poll")
    /\ PollFail
    /\ UNCHANGED <<driverVars, deviceVars, setVars, disVars>>

PollResume == Resume("poll")

\* _send_command returns after the 50 ms sleep; read_register parses the
\* response; the cycle goes on to its next read or ends
PollReturns ==
    /\ pc["poll"] = "sleep"
    /\ LET k == Len(got) + 1
           count == ReadPlan[k][2]
           resp == response["poll"]
       IN  IF ReadResponseValid(resp, count)
           THEN IF k < NumReads
                THEN /\ got' = Append(got, ReadValues(resp, count))
                     /\ response' = [response EXCEPT !["poll"] = <<>>]
                     /\ sent' = [sent EXCEPT !["poll"] = <<>>]
                     /\ SendStart("poll")
                     /\ UNCHANGED <<coordVars, client, pollHist>>
                ELSE /\ PollSucceed(Append(got, ReadValues(resp, count)))
                     /\ UNCHANGED driverVars
           ELSE /\ PollFail
                /\ UNCHANGED driverVars
    /\ UNCHANGED <<deviceVars, setVars, disVars>>

(***************************************************************************)
(* RK6006Coordinator.async_set_voltage .. async_set_take_out.              *)
(***************************************************************************)
\* a failing setter that marks the coordinator disconnected
SetFailDisconnects ==
    /\ set_result' = "error"
    /\ connected' = FALSE
    /\ pc' = [pc EXCEPT !["set"] = "idle"]
    /\ response' = [response EXCEPT !["set"] = <<>>]
    /\ sent' = [sent EXCEPT !["set"] = <<>>]
    /\ UNCHANGED <<connection_enabled, consecutive_errors, data, refresh_requested,
                   got, set_op, set_arg>>
    /\ set_got' = <<>>

\* a failing setter that has patched the snapshot before the write
SetFailPatches ==
    /\ set_result' = "error"
    /\ data' = (IF Truthy(data)
                THEN <<[data[1] EXCEPT ![SetKey(set_op)] = set_arg]>> ELSE data)
    /\ pc' = [pc EXCEPT !["set"] = "idle"]
    /\ response' = [response EXCEPT !["set"] = <<>>]
    /\ sent' = [sent EXCEPT !["set"] = <<>>]
    /\ UNCHANGED <<connection_enabled, connected, consecutive_errors,
                   refresh_requested, got, set_op, set_arg>>
    /\ set_got' = <<>>

\* the setter raises to its caller
SetFail ==
    /\ set_result' = "error"
    /\ pc' = [pc EXCEPT !["set"] = "idle"]
    /\ response' = [response EXCEPT !["set"] = <<>>]
    /\ sent' = [sent EXCEPT !["set"] = <<>>]
    /\ UNCHANGED <<coordVars, got, set_op, set_arg>>
    /\ set_got' = <<>>

\* a patch with the value the register holds after the write
PatchedDeviceValue(d, op, arg) ==
    IF Truthy(d)
    THEN <<[d[1] EXCEPT ![SetKey(op)] =
                IF op \in NumericOps THEN FromRaw(ToRaw(arg, Scale(op))) ELSE arg]>>
    ELSE d

\* lines 134-136: patch the snapshot in place if there is one
\* a patch that does not look at the snapshot first
PatchedUnguarded(d, op, arg) ==
    IF d = NoData THEN d
    ELSE <<[k \in DOMAIN d[1] \cup {SetKey(op)} |->
                IF k = SetKey(op) THEN arg ELSE d[1][k]]>>

Patched(d, op, arg) ==
    IF Truthy(d) THEN <<[d[1] EXCEPT ![SetKey(op)] = arg]>> ELSE d

\* the user calls the setter: the range checks, then _send_command starts
SetCall ==
    /\ pc["set"] = "idle"
    /\ set_op \in SetOps
    /\ IF ~SetArgAccepted(set_op, set_arg)
       THEN /\ set_result' = "error"
            /\ UNCHANGED <<driverVars, pc>>
       ELSE IF client = "none"
       THEN /\ response_data' = <<>>
            /\ response_event' = FALSE
            /\ set_result' = "error"
            /\ UNCHANGED <<client, pc>>
       ELSE /\ SendStart("set")
            /\ set_result' = "running"
            /\ UNCHANGED client
    /\ UNCHANGED <<coordVars, deviceVars, response, got, sent, set_op, set_arg,
                   set_got,
                   disVars, pollHist>>

SetWriteCompletes == \E heard \in BOOLEAN : WriteCompletes("set", heard)

SetWriteRefused == WriteRefused("set")

SetWriteFails ==
    /\ pc["set"] = "write"
    /\ client # "open"
    /\ SetFail
    /\ UNCHANGED <<driverVars, deviceVars, disVars, pollHist>>

SetTimeout ==
    /\ TimesOut("set")
    /\ SetFail
    /\ UNCHANGED <<driverVars, deviceVars, disVars, pollHist>>

SetResume == Resume("set")

\* _send_command returns; write_register checks the length; the setter
\* patches the snapshot
SetReturns ==
    /\ pc["set"] = "sleep"
    /\ set_op \in SetOps
    /\ IF WriteResponseValid(response["set"])
       THEN /\ set_result' = "ok"
            /\ data' = Patched(data, set_op, set_arg)
            /\ pc' = [pc EXCEPT !["set"] = "idle"]
            /\ response' = [response EXCEPT !["set"] = <<>>]
            /\ sent' = [sent EXCEPT !["set"] = <<>>]
            /\ UNCHANGED <<connection_enabled, connected, consecutive_errors,
                           refresh_requested, got, set_op, set_arg>>
            /\ set_got' = <<>>
       ELSE SetFail
    /\ UNCHANGED <<driverVars, deviceVars, disVars, pollHist>>

(***************************************************************************)
(* RK6006.save_memory / recall_memory, called on the driver.               *)
(***************************************************************************)
\* the call: the slot check, then the first command
MemCall ==
    /\ pc["set"] = "idle"
    /\ set_op \in MemOps
    /\ IF ~SlotAccepted(set_arg)
       THEN /\ set_result' = "error"
            /\ UNCHANGED <<driverVars, pc>>
       ELSE IF client = "none"
       THEN /\ response_data' = <<>>
            /\ response_event' = FALSE
            /\ set_result' = "error"
            /\ UNCHANGED <<client, pc>>
       ELSE /\ SendStart("set")
            /\ set_result' = "running"
            /\ UNCHANGED client
    /\ UNCHANGED <<coordVars, deviceVars, response, got, sent, set_op, set_arg,
                   set_got, disVars, pollHist>>

\* a driver that sends the request again when the response fails its checks
MemReturnsRetries ==
    /\ pc["set"] = "sleep"
    /\ set_op \in MemOps
    /\ LET k == Len(set_got) + 1
           count == MemReadCount(set_op, k)
           resp == response["set"]
           valid == IF count > 0 THEN ReadResponseValid(resp, count)
                    ELSE WriteResponseValid(resp)
           values == IF count > 0 THEN ReadValues(resp, count) ELSE <<>>
       IN  IF ~valid \/ k < MemPlanLen(set_op)
           THEN /\ set_got' = (IF valid THEN Append(set_got, values) ELSE set_got)
                /\ response_data' = <<>>
                /\ response_event' = FALSE
                /\ pc' = [pc EXCEPT !["set"] = "write"]
                /\ response' = [response EXCEPT !["set"] = <<>>]
                /\ sent' = [sent EXCEPT !["set"] = <<>>]
                /\ UNCHANGED <<coordVars, client, got, set_op, set_arg, set_result>>
           ELSE /\ set_result' = "ok"
                /\ set_got' = <<>>
                /\ pc' = [pc EXCEPT !["set"] = "idle"]
                /\ response' = [response EXCEPT !["set"] = <<>>]
                /\ sent' = [sent EXCEPT !["set"] = <<>>]
                /\ UNCHANGED <<coordVars, driverVars, got, set_op, set_arg>>
    /\ UNCHANGED <<deviceVars, disVars, pollHist>>

\* _send_command returns to read_register or write_register, which checks
\* the response; the operation goes on with its next command or returns
MemReturns ==
    /\ pc["set"] = "sleep"
    /\ set_op \in MemOps
    /\ LET k == Len(set_got) + 1
           count == MemReadCount(set_op, k)
           resp == response["set"]
           valid == IF count > 0 THEN ReadResponseValid(resp, count)
                    ELSE WriteResponseValid(resp)
           values == IF count > 0 THEN ReadValues(resp, count) ELSE <<>>
       IN  IF ~valid
           THEN SetFail /\ UNCHANGED driverVars
           ELSE IF k < MemPlanLen(set_op)
           THEN /\ set_got' = Append(set_got, values)
                /\ response_data' = <<>>
                /\ response_event' = FALSE
                /\ pc' = [pc EXCEPT !["set"] = "write"]
                /\ response' = [response EXCEPT !["set"] = <<>>]
                /\ sent' = [sent EXCEPT !["set"] = <<>>]
                /\ UNCHANGED <<coordVars, client, got, set_op, set_arg, set_result>>
           ELSE /\ set_result' = "ok"
                /\ set_got' = <<>>
                /\ pc' = [pc EXCEPT !["set"] = "idle"]
                /\ response' = [response EXCEPT !["set"] = <<>>]
                /\ sent' = [sent EXCEPT !["set"] = <<>>]
                /\ UNCHANGED <<coordVars, driverVars, got, set_op, set_arg>>
    /\ UNCHANGED <<deviceVars, disVars, pollHist>>

(***************************************************************************)
(* RK6006Coordinator.async_enable_connection / async_disable_connection.   *)
(***************************************************************************)
\* an enable without line 205
AsyncEnableConnectionKeepsErrors ==
    /\ connection_enabled' = TRUE
    /\ refresh_requested' = TRUE
    /\ streak' = 0
    /\ UNCHANGED <<connected, consecutive_errors, data, driverVars, deviceVars,
                   taskVars, setVars, disVars, result>>

\* lines 202-212
AsyncEnableConnection ==
    /\ connection_enabled' = TRUE
    /\ consecutive_errors' = 0
    /\ refresh_requested' = TRUE
    /\ streak' = 0
    /\ UNCHANGED <<connected, data, driverVars, deviceVars, taskVars, setVars,
                   disVars, result>>

\* a disable that also clears the error counter
DisableStartResets ==
    /\ dis_pc = "idle"
    /\ connection_enabled' = FALSE
    /\ consecutive_errors' = 0
    /\ IF connected /\ client = "open"
       THEN /\ dis_pc' = "disconnecting"
            /\ dis_attempted' = TRUE
            /\ UNCHANGED connected
       ELSE /\ connected' = FALSE
            /\ dis_attempted' = FALSE
            /\ UNCHANGED dis_pc
    /\ UNCHANGED <<data, refresh_requested, driverVars,
                   deviceVars, taskVars, setVars, pollHist, setup>>

\* lines 216-225: up to the await of client.disconnect()
DisableStart ==
    /\ dis_pc = "idle"
    /\ connection_enabled' = FALSE
    /\ IF connected /\ client = "open"
       THEN /\ dis_pc' = "disconnecting"
            /\ dis_attempted' = TRUE
            /\ UNCHANGED connected
       ELSE /\ connected' = FALSE
            /\ dis_attempted' = FALSE
            /\ UNCHANGED dis_pc
    /\ UNCHANGED <<consecutive_errors, data, refresh_requested, driverVars,
                   deviceVars, taskVars, setVars, pollHist, setup>>

\* a teardown whose try block has no except clause: a failing
\* client.disconnect() propagates to the caller of the coordinator
DisableFinishRaises(ok) ==
    /\ dis_pc \in {"disconnecting", "disconnecting_old"}
    /\ IF ok
       THEN /\ IF dis_pc = "disconnecting" /\ client = "open"
               THEN client' = "closed" /\ air' = <<>>
               ELSE UNCHANGED <<client, air>>
            /\ connected' = FALSE
            /\ dis_pc' = "idle"
       ELSE /\ dis_pc' = "raised"
            /\ UNCHANGED <<client, air, connected>>
    /\ UNCHANGED <<connection_enabled, consecutive_errors, data, refresh_requested,
                   response_data, response_event, reg, taskVars, setVars,
                   pollHist, dis_attempted, setup>>

\* lines 225-228: client.disconnect() returns or raises (swallowed)
DisableFinish(ok) ==
    /\ dis_pc \in {"disconnecting", "disconnecting_old"}
    /\ IF ok /\ dis_pc = "disconnecting" /\ client = "open"
       THEN client' = "closed" /\ air' = <<>>
       ELSE UNCHANGED <<client, air>>
    /\ connected' = FALSE
    /\ dis_pc' = "idle"
    /\ UNCHANGED <<connection_enabled, consecutive_errors, data, refresh_requested,
                   response_data, response_event, reg, taskVars, setVars,
                   pollHist, dis_attempted, setup>>

\* async_shutdown, lines 123-125: up to the await of client.disconnect()
AsyncShutdownStart ==
    /\ dis_pc = "idle"
    /\ IF connected /\ client = "open"
       THEN /\ dis_pc' = "closing"
            /\ dis_attempted' = TRUE
            /\ UNCHANGED connected
       ELSE /\ connected' = FALSE
            /\ dis_attempted' = FALSE
            /\ UNCHANGED dis_pc
    /\ UNCHANGED <<connection_enabled, consecutive_errors, data, refresh_requested,
                   driverVars, deviceVars, taskVars, setVars, pollHist, setup>>

\* async_shutdown, lines 125-128: client.disconnect() returns or raises
\* (swallowed twice: in RK6006.disconnect and in async_shutdown)
AsyncShutdownFinish(ok) ==
    /\ dis_pc = "closing"
    /\ IF ok /\ client = "open"
       THEN client' = "closed" /\ air' = <<>>
       ELSE UNCHANGED <<client, air>>
    /\ connected' = FALSE
    /\ dis_pc' = "idle"
    /\ UNCHANGED <<connection_enabled, consecutive_errors, data, refresh_requested,
                   response_data, response_event, reg, taskVars, setVars,
                   pollHist, dis_attempted, setup>>

\* the coordinator's life: poll ticks, the link, enabling and disabling
Next ==
    \/ PollTick
    \/ \E ok \in BOOLEAN : PollConnect(ok)
    \/ PollWriteCompletes
    \/ PollWriteFails
    \/ PollTimeout
    \/ PollResume
    \/ PollReturns
    \/ \E n \in FragSizes : Notify(n)
    \/ LinkDrop
    \/ LoadChanges
    \/ AsyncEnableConnection
    \/ DisableStart
    \/ \E ok \in BOOLEAN : DisableFinish(ok)

Spec == Init /\ [][Next]_vars

\* the same life with the integration's unload calling async_shutdown
NextTeardown ==
    \/ Next
    \/ AsyncShutdownStart
    \/ \E ok \in BOOLEAN : AsyncShutdownFinish(ok)

SpecTeardown == Init /\ [][NextTeardown]_vars

\* the setters between poll ticks: the user calls one setter, any number of
\* times, each call while no poll cycle is running
InitWrite == \E op \in SetOps : \E arg \in SetArgs(op) : Start(TRUE, op, arg)

NextWrite ==
    \/ pc["set"] = "idle" /\ consecutive_errors < MaxWriteErrors /\ PollTick
    \/ \E ok \in BOOLEAN : PollConnect(ok)
    \/ PollWriteCompletes
    \/ PollWriteFails
    \/ PollTimeout
    \/ PollResume
    \/ PollReturns
    \/ pc["poll"] = "idle" /\ SetCall
    \/ SetWriteCompletes
    \/ SetWriteRefused
    \/ SetWriteFails
    \/ SetTimeout
    \/ SetResume
    \/ SetReturns
    \/ \E n \in FragSizes : Notify(n)
    \/ LinkDrop

SpecWrite == InitWrite /\ [][NextWrite]_vars

\* a setter called at any moment of the poll cycles: _send_command has two
\* callers at once
InitRace == \E op \in RaceOps : \E arg \in SetArgs(op) : Start(TRUE, op, arg)

NextRace ==
    \/ consecutive_errors < MaxWriteErrors /\ PollTick
    \/ \E ok \in BOOLEAN : PollConnect(ok)
    \/ PollWriteCompletes
    \/ PollWriteFails
    \/ PollTimeout
    \/ PollResume
    \/ PollReturns
    \/ SetCall
    \/ SetWriteCompletes
    \/ SetWriteFails
    \/ SetTimeout
    \/ SetResume
    \/ SetReturns
    \/ Notify(MaxFrag)
    \/ LinkDrop

SpecRace == InitRace /\ [][NextRace]_vars

(***************************************************************************)
(* One read of a poll cycle against a device or a link that garbles the    *)
(* reply: the cycle is parked in _send_command for its k-th read, the      *)
(* reply is on its way and reaches _notification_handler in fragments of   *)
(* any sizes.                                                              *)
(***************************************************************************)
\* the words the earlier reads of the cycle returned
HonestReads(k) ==
    [j \in 1..(k - 1) |->
        ReadValues(ReadReply(InitReg, ReadCommand(j)), ReadPlan[j][2])]

\* frame with bit b of its i-th byte inverted
FlipBit(frame, i, b) == [frame EXCEPT ![i] = Xor(frame[i], 2 ^ b)]

\* the echo of a write, a frame of function 0x06
StrayEcho ==
    build_modbus_command(SLAVE_ID, FUNC_WRITE, REG_VOLTAGE_SET,
                         InitReg[REG_VOLTAGE_SET])

\* what reaches the host when the device owes the reply frame to request
\* cmd: the frame, the frame with one bit inverted, a truncated frame (down
\* to silence), an exception frame, a write echo whole or truncated
Wires(cmd, frame) ==
    {frame}
      \cup {FlipBit(frame, i, b) : i \in 1..Len(frame), b \in 0..7}
      \cup {SubSeq(frame, 1, n) : n \in 0..(Len(frame) - 1)}
      \cup {ExceptionReply(cmd)}
      \cup {SubSeq(StrayEcho, 1, n) : n \in 5..Len(StrayEcho)}

InitFrame ==
    \E k \in 1..NumReads :
        \E wire \in Wires(ReadCommand(k), ReadReply(InitReg, ReadCommand(k))) :
            /\ connection_enabled = TRUE
            /\ connected = TRUE
            /\ consecutive_errors = 0
            /\ data = NoData
            /\ refresh_requested = FALSE
            /\ response_data = <<>>
            /\ response_event = FALSE
            /\ client = "open"
            /\ reg = InitReg
            /\ air = wire
            /\ pc = [t \in Tasks |-> IF t = "poll" THEN "wait" ELSE "idle"]
            /\ response = [t \in Tasks |-> <<>>]
            /\ got = HonestReads(k)
            /\ set_op = "none"
            /\ set_arg = 0
            /\ set_got = <<>>
            /\ dis_pc = "idle"
            /\ sent = [t \in Tasks |->
                          IF t = "poll" THEN ReadReply(InitReg, ReadCommand(k))
                          ELSE <<>>]
            /\ result = [kind |-> "running", nth |-> 0]
            /\ streak = 0
            /\ set_result = "none"
            /\ dis_attempted = FALSE
            /\ setup = "none"

NextFrame ==
    \/ \E n \in 1..MaxFrag : Notify(n)
    \/ PollTimeout
    \/ PollResume
    \/ PollReturns

SpecFrame == InitFrame /\ [][NextFrame]_vars

\* the event loop runs what is ready: a pending notification is delivered,
\* an expired timeout fires, a woken waiter resumes, a returned call goes on
SpecFrameLive ==
    /\ InitFrame
    /\ [][NextFrame]_vars
    /\ WF_vars(\E n \in 1..MaxFrag : Notify(n))
    /\ WF_vars(PollTimeout)
    /\ WF_vars(PollResume)
    /\ WF_vars(PollReturns)

(***************************************************************************)
(* set_voltage on an open channel, called with every multiple of 0.01 V    *)
(* from 0 V to MaxCentivolts / 100 V.                                      *)
(***************************************************************************)
InitVolts ==
    \E k \in 0..MaxCentivolts :
        /\ connection_enabled = TRUE
        /\ connected = TRUE
        /\ consecutive_errors = 0
        /\ data = NoData
        /\ refresh_requested = FALSE
        /\ response_data = <<>>
        /\ response_event = FALSE
        /\ client = "open"
        /\ reg = InitReg
        /\ air = <<>>
        /\ pc = [t \in Tasks |-> "idle"]
        /\ response = [t \in Tasks |-> <<>>]
        /\ got = <<>>
        /\ set_op = "voltage"
        /\ set_arg = k * Res
        /\ set_got = <<>>
        /\ dis_pc = "idle"
        /\ sent = [t \in Tasks |-> <<>>]
        /\ result = [kind |-> "none", nth |-> 0]
        /\ streak = 0
        /\ set_result = "none"
        /\ dis_attempted = FALSE
        /\ setup = "none"

NextVolts ==
    \/ SetCall
    \/ SetWriteCompletes
    \/ SetTimeout
    \/ SetResume
    \/ SetReturns
    \/ Notify(MaxFrag)

SpecVolts == InitVolts /\ [][NextVolts]_vars

(***************************************************************************)
(* One call of save_memory, recall_memory or async_set_backlight on an     *)
(* open channel, after a poll cycle has filled the snapshot; the slot or   *)
(* the level is in range, at the edge of the range or just outside it.     *)
(***************************************************************************)
MemSlots == (-1)..10
Levels == {-1, 0, 5, 6}

\* what is left of a damaged reply: the shortest buffer the handler takes
\* for complete (line 119: len >= 5)
DamagedLen == 5

InitMemory ==
    \E op \in MemOps \cup {"backlight"} :
      \E arg \in (IF op = "backlight" THEN Levels ELSE MemSlots) :
        /\ connection_enabled = TRUE
        /\ connected = TRUE
        /\ consecutive_errors = 0
        /\ data = <<Snapshot(HonestReads(NumReads + 1))>>
        /\ refresh_requested = FALSE
        /\ response_data = <<>>
        /\ response_event = FALSE
        /\ client = "open"
        /\ reg = InitReg
        /\ air = <<>>
        /\ pc = [t \in Tasks |-> "idle"]
        /\ response = [t \in Tasks |-> <<>>]
        /\ got = <<>>
        /\ set_op = op
        /\ set_arg = arg
        /\ set_got = <<>>
        /\ dis_pc = "idle"
        /\ sent = [t \in Tasks |-> <<>>]
        /\ result = [kind |-> "ok", nth |-> 0]
        /\ streak = 0
        /\ set_result = "none"
        /\ dis_attempted = FALSE
        /\ setup = "none"

NextMemory ==
    \/ MemCall
    \/ MemReturns
    \/ SetCall
    \/ SetReturns
    \/ SetWriteCompletes
    \/ SetWriteFails
    \/ SetTimeout
    \/ SetResume
    \/ \E n \in FragSizes : Notify(n)
    \/ LinkDrop

SpecMemory == InitMemory /\ [][NextMemory]_vars

\* the device executes the frame and the link damages the reply: the top
\* bit of its function byte arrives inverted and the frame is cut after
\* DamagedLen bytes
SetWriteGarbled ==
    /\ pc["set"] = "write"
    /\ client = "open"
    /\ LET x == DeviceExchange(reg, Command("set"))
       IN  /\ reg' = x.reg
           /\ air' = air \o SubSeq(FlipBit(x.reply, 2, 7), 1, DamagedLen)
           /\ sent' = [sent EXCEPT !["set"] = x.reply]
    /\ pc' = [pc EXCEPT !["set"] = IF response_event THEN "woken" ELSE "wait"]
    /\ UNCHANGED <<coordVars, driverVars, response, got, setVars, disVars,
                   pollHist>>

\* the same calls against a device that may refuse a frame and a link that
\* may damage a reply
NextNoisy ==
    \/ NextMemory
    \/ SetWriteRefused
    \/ SetWriteGarbled

SpecNoisy == InitMemory /\ [][NextNoisy]_vars

(***************************************************************************)
(* Poll cycles against a device where the word get_temperature takes as    *)
(* the external reading (values[1] of its read of 2 registers) is near 0,  *)
(* near 65000 or near 65535.                                               *)
(***************************************************************************)
\* the register behind values[1] of read_register(REG_TEMP_INT, 2)
TempProbeReg == REG_TEMP_INT + 1

TempWords ==
    (0..TempEdge) \cup ((65000 - TempEdge)..(65000 + TempEdge))
      \cup ((65535 - TempEdge)..65535)

InitTemp ==
    \E w \in TempWords :
        Ready([InitReg EXCEPT ![TempProbeReg] = w], NoData, "none", 0)

NextTemp ==
    \/ PollTick
    \/ WriteCompletes("poll", TRUE)
    \/ Notify(MaxFrag)
    \/ PollResume
    \/ PollReturns

SpecTemp == InitTemp /\ [][NextTemp]_vars

(***************************************************************************)
(* Poll cycles against a device whose four status registers hold any       *)
(* combination of the words at the edges of the 16-bit range; the four     *)
(* energy registers hold the same words in another order.                  *)
(***************************************************************************)
EdgeWords == {0, 1, 32767, 32768, 65535}

InitStatus ==
    \E v, c, h, l \in EdgeWords :
        Ready([a \in RegAddrs |->
                 CASE a = REG_VOLTAGE_READ -> v
                   [] a = REG_VOLTAGE_READ + 1 -> c
                   [] a = REG_VOLTAGE_READ + 2 -> h
                   [] a = REG_VOLTAGE_READ + 3 -> l
                   [] a = REG_AH_H -> l
                   [] a = REG_AH_H + 1 -> h
                   [] a = REG_AH_H + 2 -> c
                   [] a = REG_AH_H + 3 -> v
                   [] OTHER -> InitReg[a]],
              NoData, "none", 0)

SpecStatus == InitStatus /\ [][NextTemp]_vars

(***************************************************************************)
(* async_setup_entry (__init__.py): with the connection enabled it awaits  *)
(* the coordinator's first refresh, which runs _async_update_data once and *)
(* raises only if that call raised; the entry is then set up or the setup  *)
(* fails with ConfigEntryNotReady.                                         *)
(***************************************************************************)
\* lines 27-33: the coordinator is built; the first refresh is awaited if
\* the connection is enabled
SetupStart ==
    /\ setup = "none"
    /\ setup' = (IF connection_enabled THEN "refreshing" ELSE "ready")
    /\ UNCHANGED <<coordVars, driverVars, deviceVars, taskVars, setVars, pollHist,
                   dis_pc, dis_attempted>>

\* the one tick of the first refresh; the device is out of reach (the
\* connection attempt fails) or falls silent at some command
SetupTick ==
    /\ setup = "refreshing"
    /\ result.kind = "none"
    /\ PollTick

\* lines 33-42: the first refresh has raised or returned
SetupFinish ==
    /\ setup = "refreshing"
    /\ pc["poll"] = "idle"
    /\ result.kind # "none"
    /\ setup' = (IF result.kind = "failed" THEN "not_ready" ELSE "ready")
    /\ UNCHANGED <<coordVars, driverVars, deviceVars, taskVars, setVars, pollHist,
                   dis_pc, dis_attempted>>

NextSetup ==
    \/ SetupStart
    \/ SetupTick
    \/ \E ok \in BOOLEAN : PollConnect(ok)
    \/ PollWriteCompletes
    \/ PollTimeout
    \/ PollResume
    \/ PollReturns
    \/ \E n \in FragSizes : Notify(n)
    \/ LoadChanges
    \/ SetupFinish

SpecSetup == Init /\ [][NextSetup]_vars

(***************************************************************************)
(* A slow device: the reply to a command is still on its way when          *)
(* wait_for gives up after the timeout.  One setter call on a connected    *)
(* coordinator is followed by one poll tick.                               *)
(***************************************************************************)
\* rk6006.py lines 214-221: the timeout expires while the whole reply is
\* still to come; nothing discards it
TimesOutLate(t) ==
    /\ pc[t] = "wait"
    /\ air # <<>>
    /\ air = sent[t]
    /\ response_data = <<>>

SetTimeoutLate ==
    /\ TimesOutLate("set")
    /\ SetFail
    /\ UNCHANGED <<driverVars, deviceVars, disVars, pollHist>>

InitLate ==
    \E arg \in SetArgs("voltage") : Ready(InitReg, NoData, "voltage", arg)

NextLate ==
    \/ set_result = "none" /\ pc["poll"] = "idle" /\ SetCall
    \/ WriteCompletes("set", TRUE)
    \/ SetTimeoutLate
    \/ SetResume
    \/ SetReturns
    \/ result.kind = "none" /\ pc["set"] = "idle" /\ PollTick
    \/ PollWriteCompletes
    \/ PollTimeout
    \/ PollResume
    \/ PollReturns
    \/ \E n \in FragSizes : Notify(n)

SpecLate == InitLate /\ [][NextLate]_vars

(***************************************************************************)
(* Everything that runs on the coordinator: poll ticks, one setter at a    *)
(* time between the cycles, enable, disable and shutdown, against a device *)
(* that may stay silent.                                                   *)
(***************************************************************************)
InitCounter ==
    \E enabled \in BOOLEAN : \E arg \in SetArgs("backlight") :
        Start(enabled, "backlight", arg)

NextCounter ==
    \/ pc["set"] = "idle" /\ PollTick
    \/ \E ok \in BOOLEAN : PollConnect(ok)
    \/ PollWriteCompletes
    \/ PollTimeout
    \/ PollResume
    \/ PollReturns
    \/ pc["poll"] = "idle" /\ SetCall
    \/ SetWriteCompletes
    \/ SetTimeout
    \/ SetResume
    \/ SetReturns
    \/ Notify(MaxFrag)
    \/ AsyncEnableConnection
    \/ DisableStart
    \/ \E ok \in BOOLEAN : DisableFinish(ok)
    \/ AsyncShutdownStart
    \/ \E ok \in BOOLEAN : AsyncShutdownFinish(ok)

SpecCounter == InitCounter /\ [][NextCounter]_vars

(***************************************************************************)
(* The snapshot under poll cycles that succeed or fail up to and past the  *)
(* threshold, with any one of the nine setters called between the cycles.  *)
(***************************************************************************)
InitSnapshot == \E op \in SetOps : \E arg \in SetArgs(op) : Start(TRUE, op, arg)

NextSnapshot ==
    \/ pc["set"] = "idle" /\ PollTick
    \/ \E ok \in BOOLEAN : PollConnect(ok)
    \/ PollWriteCompletes
    \/ PollTimeout
    \/ PollResume
    \/ PollReturns
    \/ pc["poll"] = "idle" /\ SetCall
    \/ SetWriteCompletes
    \/ SetTimeout
    \/ SetResume
    \/ SetReturns
    \/ Notify(MaxFrag)

SpecSnapshot == InitSnapshot /\ [][NextSnapshot]_vars

(***************************************************************************)
(* Steps of a poll cycle, as the properties below name them.               *)
(***************************************************************************)
\* the running cycle returns or raises in this step
PollEnds == pc["poll"] # "idle" /\ pc'["poll"] = "idle"

\* the cycle ends in its except branch
PollEndsFailing == PollEnds /\ result'.kind \in {"stale", "failed"}

\* the cycle ends with all thirteen reads parsed
PollEndsOk == PollEnds /\ result'.kind = "ok"

\* the snapshot built from the reads of the cycle that ends in this step
NewlyRead ==
    LET k == Len(got) + 1
    IN  Snapshot(Append(got, ReadValues(response["poll"], ReadPlan[k][2])))

\* every key of snapshot d is in e with the same value
KeysUntouched(d, e) ==
    d # NoData =>
        /\ e # NoData
        /\ \A key \in DOMAIN d[1] : key \in DOMAIN e[1] /\ e[1][key] = d[1][key]

(***************************************************************************)
(* C3: counting from an error counter of 0 with the connection enabled,    *)
(* the 1st and the 2nd consecutive failing poll cycle each return a        *)
(* snapshot without a failure signal, and the 3rd consecutive failing      *)
(* cycle is the first that raises UpdateFailed.                            *)
(***************************************************************************)
C3_ThirdFailureSurfaces ==
    /\ result.kind = "stale" => result.nth \in {1, 2} /\ data # NoData
    /\ result.kind = "failed" => result.nth >= 3

C3_Witness == result.kind = "failed" /\ result.nth = 3 /\ connection_enabled

(***************************************************************************)
(* C4: with a snapshot S present, two consecutive failing cycles each      *)
(* leave S as the visible snapshot and surface no failure, and the         *)
(* successful cycle after them sets the error counter to 0 and makes the   *)
(* newly read snapshot the visible one.                                    *)
(***************************************************************************)
C4_TwoFailuresThenSuccess ==
    [][/\ (PollEndsFailing /\ Truthy(data) /\ streak < 2) =>
              (result'.kind = "stale" /\ data' = data)
       /\ PollEndsOk =>
              (consecutive_errors' = 0 /\ data' = <<NewlyRead>>)]_vars

C4_Witness ==
    /\ result.kind = "ok"
    /\ result.nth = 2
    /\ consecutive_errors = 0
    /\ Truthy(data)
    /\ data[1]["voltage"] = FromRaw(InitReg[REG_VOLTAGE_READ] - 1)

(***************************************************************************)
(* C5: once the error counter has reached 3, every further failing cycle   *)
(* raises UpdateFailed too, and the counter is lowered only by a           *)
(* successful poll cycle.                                                  *)
(***************************************************************************)
C5_OnlySuccessLowers ==
    [][consecutive_errors >= 3 =>
           /\ PollEndsFailing => result'.kind = "failed"
           /\ consecutive_errors' >= 3 \/ (PollEndsOk /\ consecutive_errors' = 0)]_vars

\* C5 as the code has it: async_enable_connection lowers the counter too
C5_SuccessOrEnableLowers ==
    [][consecutive_errors >= 3 =>
           /\ PollEndsFailing => result'.kind = "failed"
           /\ \/ consecutive_errors' >= 3
              \/ PollEndsOk /\ consecutive_errors' = 0
              \/ AsyncEnableConnection /\ consecutive_errors' = 0]_vars

C5_Witness == result.kind = "failed" /\ result.nth = 4 /\ consecutive_errors = 4

(***************************************************************************)
(* C6: a poll cycle never updates the snapshot in part: no step inside a   *)
(* cycle changes it, a cycle that fails at its connect or at any read      *)
(* leaves every key of the previous snapshot untouched, and a cycle that   *)
(* succeeds replaces it by a snapshot with every key, all from that        *)
(* cycle's own reads.                                                      *)
(***************************************************************************)
C6_SnapshotAllOrNothing ==
    [][/\ ~PollEnds => data' = data
       /\ PollEndsFailing => KeysUntouched(data, data')
       /\ PollEndsOk => (data' = <<NewlyRead>> /\ DOMAIN data'[1] = Keys)]_vars

C6_Witness ==
    /\ result.kind = "stale"
    /\ Truthy(data)
    /\ reg[REG_VOLTAGE_READ] # InitReg[REG_VOLTAGE_READ]
    /\ data[1]["voltage"] = FromRaw(InitReg[REG_VOLTAGE_READ])

(***************************************************************************)
(* C7: a poll tick with the connection disabled fails at once with the     *)
(* connection-disabled failure and does nothing else: no connect, no       *)
(* frame written, and the error counter, the connection state and the      *)
(* snapshot stay as they are.                                              *)
(***************************************************************************)
C7_DisabledTickHasNoEffect ==
    [][(PollTick /\ ~connection_enabled) =>
           /\ result'.kind = "disabled"
           /\ pc' = pc
           /\ UNCHANGED <<connection_enabled, connected, consecutive_errors, data,
                          driverVars, deviceVars, sent>>]_vars

C7_Witness ==
    /\ result.kind = "disabled"
    /\ ~connection_enabled
    /\ Truthy(data)
    /\ consecutive_errors > 0

(***************************************************************************)
(* C8: when async_disable_connection completes, the coordinator is         *)
(* Disconnected and the transport is torn down: disconnect has been        *)
(* attempted on the channel if it is still open, whatever came before.     *)
(***************************************************************************)
\* async_disable_connection returns in this step
DisableCompletes ==
    \/ DisableStart /\ dis_pc' = "idle"
    \/ \E ok \in BOOLEAN : DisableFinish(ok)

C8_DisableTearsDown ==
    [][DisableCompletes =>
           /\ ~connected'
           /\ client' = "open" => dis_attempted']_vars

(***************************************************************************)
(* C9: async_enable_connection sets the enabled flag, sets the error       *)
(* counter to 0 whatever it was and requests a poll at once; a cycle that  *)
(* fails with the counter at 0 is failure number 1.                        *)
(***************************************************************************)
C9_EnableResets ==
    [][/\ AsyncEnableConnection =>
              /\ connection_enabled'
              /\ consecutive_errors' = 0
              /\ refresh_requested'
       /\ (PollEndsFailing /\ consecutive_errors = 0) =>
              (consecutive_errors' = 1 /\ result'.kind = "stale")]_vars

C9_Witness ==
    /\ result.kind = "failed"
    /\ consecutive_errors = 0
    /\ refresh_requested
    /\ connection_enabled
    /\ dis_attempted

(***************************************************************************)
(* C10: a setter whose write succeeds changes, in an existing snapshot,    *)
(* exactly the key of that setter to the value it was called with and      *)
(* leaves every other key as it was; with no snapshot it creates none.     *)
(***************************************************************************)
\* the setter returns without raising in this step
SetSucceeds == pc["set"] = "sleep" /\ pc'["set"] = "idle" /\ set_result' = "ok"

\* the key the claim pairs with each write operation
KeyOfWrite ==
    [op \in SetOps |->
        CASE op = "voltage" -> "voltage_set"
          [] op = "current" -> "current_set"
          [] op = "ovp" -> "ovp"
          [] op = "ocp" -> "ocp"
          [] op = "backlight" -> "backlight"
          [] op = "output" -> "output_enabled"
          [] op = "buzzer" -> "buzzer"
          [] op = "power_on_boot" -> "power_on_boot"
          [] op = "take_out" -> "take_out"]

C10_WritePatchesOneKey ==
    [][SetSucceeds =>
           IF Truthy(data)
           THEN /\ Truthy(data')
                /\ DOMAIN data'[1] = DOMAIN data[1]
                /\ data'[1][KeyOfWrite[set_op]] = set_arg
                /\ \A key \in DOMAIN data[1] \ {KeyOfWrite[set_op]} :
                       data'[1][key] = data[1][key]
           ELSE data' = data]_vars

C10_Witness ==
    /\ set_result = "ok"
    /\ Truthy(data)
    /\ set_op = "voltage"
    /\ data[1]["voltage_set"] = set_arg
    /\ set_arg # FromRaw(ToRaw(set_arg, Scale(set_op)))

(***************************************************************************)
(* C1: at most one command is in flight on the transport session: no       *)
(* second _send_command clears the buffer and the event or writes its      *)
(* frame before the first has returned or raised, also when a setter is    *)
(* called while a poll cycle is suspended inside _send_command.            *)
(***************************************************************************)
\* task t is inside _send_command with its command unresolved
Pending(t) == pc[t] \in {"write", "wait", "woken"}

C1_OneCommandInFlight == Cardinality({t \in Tasks : Pending(t)}) <= 1

(***************************************************************************)
(* C2: a second command issued while one is pending does not disturb the   *)
(* pairing of replies: every caller of _send_command is returned exactly   *)
(* the bytes the device sent in reply to its own frame.                    *)
(***************************************************************************)
C2_ReplyPairedWithRequest ==
    \A t \in Tasks : pc[t] = "sleep" => response[t] = sent[t]

(***************************************************************************)
(* C11: no write operation of the coordinator, succeeding or failing,      *)
(* changes the error counter or the connection state, and a successful     *)
(* write shows its patched value at once, with no poll tick in between.    *)
(***************************************************************************)
\* a step of the running setter, or the call of one
SetterStep == SetCall \/ pc'["set"] # pc["set"] \/ set_result' # set_result

C11_WriteLeavesErrorMachinery ==
    [][/\ SetterStep => UNCHANGED <<consecutive_errors, connected>>
       /\ (SetSucceeds /\ Truthy(data)) =>
              (data'[1][KeyOfWrite[set_op]] = set_arg /\ pc'["poll"] = pc["poll"]
               /\ result' = result)]_vars

C11_Witness ==
    /\ set_result = "error"
    /\ client = "closed"
    /\ connected
    /\ consecutive_errors = 0
    /\ pc["poll"] = "idle"

(***************************************************************************)
(* C12: a write operation that fails (the write raises, the reply times    *)
(* out, the reply is shorter than 8 bytes, or the argument is rejected)    *)
(* raises to its caller and leaves the snapshot exactly as it was; the     *)
(* snapshot is patched only after the device exchange has succeeded.       *)
(***************************************************************************)
\* the setter raises to its caller in this step
SetEndsFailing ==
    /\ set_result' = "error"
    /\ pc'["set"] = "idle"
    /\ SetCall \/ pc["set"] # "idle"

C12_FailedWriteKeepsSnapshot ==
    [][/\ SetEndsFailing => data' = data
       /\ (pc["set"] # "idle" /\ data' # data) =>
              (SetSucceeds /\ Len(response["set"]) >= 8)
       /\ (pc["set"] = "sleep" /\ pc'["set"] = "idle" /\ Len(response["set"]) < 8) =>
              SetEndsFailing]_vars

\* the device has refused the write and the reply of 5 bytes is being parsed
C12_Witness ==
    /\ pc["set"] = "sleep"
    /\ Len(response["set"]) = 5
    /\ response["set"][2] = FUNC_WRITE + 128
    /\ Truthy(data)

(***************************************************************************)
(* C13: tearing the session down while a caller is parked in               *)
(* _send_command unblocks that caller at the teardown, with a              *)
(* Disconnected error, instead of leaving it parked until its timeout.     *)
(***************************************************************************)
\* client.disconnect() closes the open channel in this step
TeardownStep ==
    /\ \E ok \in BOOLEAN : DisableFinish(ok)
    /\ client = "open"
    /\ client' = "closed"

C13_TeardownUnblocksWaiter ==
    [][TeardownStep => \A t \in Tasks : pc'[t] # "wait"]_vars

(***************************************************************************)
(* C14: reassembly does not depend on fragmentation: however a valid       *)
(* read-response frame is split into fragments, from one byte each to the  *)
(* whole frame at once, completion is signalled exactly when the last      *)
(* byte has arrived, and the waiter is handed the frame itself.            *)
(***************************************************************************)
\* the bytes received and the bytes still on their way are the frame owed
WireIsTheFrame == response_data \o air = sent["poll"]

C14_FragmentationIndependent ==
    WireIsTheFrame =>
        /\ pc["poll"] \in {"wait", "woken"} =>
               /\ response_event <=> air = <<>>
               /\ pc["poll"] = "woken" <=> response_event
        /\ pc["poll"] = "sleep" => response["poll"] = sent["poll"]

\* all but the last byte of a 13-byte frame have arrived
C14_Witness ==
    /\ WireIsTheFrame
    /\ Len(response_data) = 12
    /\ Len(air) = 1
    /\ ~response_event
    /\ pc["poll"] = "wait"

(***************************************************************************)
(* C15: after each fragment the handler signals completion if and only if  *)
(* the buffer holds at least 5 bytes and either its function byte is 0x03  *)
(* and it holds at least 5 + buffer[2] bytes, or the function byte is      *)
(* 0x06 and it holds at least 8 bytes, or the function byte is any other;  *)
(* with fewer than 5 bytes it never signals.                               *)
(***************************************************************************)
\* the completion rule as the claim words it (buffer[i] is byte i + 1 here)
CompletionRule(buffer) ==
    IF Len(buffer) < 5 THEN FALSE
    ELSE \/ buffer[2] = 3 /\ Len(buffer) >= 5 + buffer[3]
         \/ buffer[2] = 6 /\ Len(buffer) >= 8
         \/ buffer[2] \notin {3, 6}

C15_CompletionRule ==
    [][Len(response_data') > Len(response_data) =>
           (response_event' <=> (response_event \/ CompletionRule(response_data')))]_vars

\* a write echo of which 7 bytes have arrived: not signalled
C15_Witness ==
    /\ Len(response_data) = 7
    /\ response_data[2] = FUNC_WRITE
    /\ ~response_event
    /\ air # <<>>

(***************************************************************************)
(* C16: read_register rejects a read response whose trailing CRC is not    *)
(* the CRC-16 of the bytes before it: no frame with one bit inverted is    *)
(* decoded into register values.                                           *)
(***************************************************************************)
\* read_register returns values in this step
ReadAccepted ==
    /\ pc["poll"] = "sleep"
    /\ pc'["poll"] # "sleep"
    /\ Len(got') = Len(got) + 1 \/ PollEndsOk

\* the last two bytes are the little-endian CRC-16 of the bytes before them
CrcMatches(resp) ==
    /\ Len(resp) >= 3
    /\ calculate_crc16(SubSeq(resp, 1, Len(resp) - 2))
           = resp[Len(resp) - 1] + 256 * resp[Len(resp)]

C16_CorruptFrameRejected ==
    [][ReadAccepted => CrcMatches(response["poll"])]_vars

(***************************************************************************)
(* C17: a response is accepted only if its function code fits the          *)
(* request: read_register returns no values decoded from a response whose  *)
(* function byte is not 0x03.                                              *)
(***************************************************************************)
C17_FunctionCodeChecked ==
    [][ReadAccepted => response["poll"][2] = FUNC_READ]_vars

(***************************************************************************)
(* C19: _send_command always terminates: once the frame is written, the    *)
(* call returns the accumulated bytes or raises the timeout error,         *)
(* whatever the device does: silence, a truncated reply, a byte-count      *)
(* field larger than the data sent.                                        *)
(***************************************************************************)
C19_SendCommandTerminates ==
    pc["poll"] \in {"wait", "woken"} ~> pc["poll"] \in {"sleep", "idle"}

\* a truncated reply has arrived, completion was never signalled, the call
\* has raised the timeout error
C19_Witness ==
    /\ pc["poll"] = "idle"
    /\ result.kind = "stale"
    /\ response_data # <<>>
    /\ ~response_event
    /\ air = <<>>

(***************************************************************************)
(* C20: for every voltage v from 0 V to 60 V that is a multiple of 0.01 V, *)
(* set_voltage(v) writes the word 100 * v exactly, a word of 16 bits, so   *)
(* that the setpoint register read back and divided by 100 gives v again.  *)
(***************************************************************************)
C20_VoltageRoundTrip ==
    (set_op = "voltage" /\ set_result = "ok" /\ set_arg <= 6000 * Res) =>
        /\ reg[REG_VOLTAGE_SET] < 65536
        /\ FromRaw(reg[REG_VOLTAGE_SET]) = set_arg

(***************************************************************************)
(* C18: a call of save_memory or recall_memory with a slot outside 0..9,   *)
(* or of the backlight setter with a level outside 0..5, ends in an error  *)
(* in the step of the call itself: no command is started (the caller never *)
(* leaves "idle", the buffer and the event are not cleared), the device    *)
(* receives no frame (its registers and the bytes on the air are as they   *)
(* were, no reply is recorded), and the snapshot is unchanged.             *)
(***************************************************************************)
OutOfRange ==
    \/ set_op \in MemOps /\ ~(0 <= set_arg /\ set_arg <= 9)
    \/ set_op = "backlight" /\ ~(0 <= set_arg /\ set_arg <= 5)

CallStep == pc["set"] = "idle" /\ (set_result' # set_result \/ pc'["set"] # "idle")

C18_OutOfRangeRejectedBeforeIO ==
    [][(OutOfRange /\ CallStep) =>
          /\ set_result' = "error"
          /\ UNCHANGED <<pc, response_data, response_event, reg, air, sent,
                         response, set_got, data, coordVars>>]_vars

C18_Witness ==
    /\ set_op = "recall_memory" /\ set_arg = -1
    /\ set_result = "error"
    /\ client = "open" /\ Truthy(data)
    /\ reg = InitReg

(***************************************************************************)
(* C21: in the snapshot of a successful cycle the external temperature is  *)
(* absent exactly when the raw word get_temperature read for it is 65000   *)
(* or above, and is the word itself for every word up to 64999.            *)
(***************************************************************************)
C21_ExternalTempSentinel ==
    (result.kind = "ok" /\ Truthy(data)) =>
        LET w == reg[TempProbeReg]
            t == data[1]["temp_external"]
        IN  /\ (t = Absent) <=> (w >= 65000)
            /\ w <= 64999 => t = w

C21_Witness ==
    /\ result.kind = "ok" /\ Truthy(data)
    /\ reg[TempProbeReg] = 65000
    /\ data[1]["temp_external"] = Absent

(***************************************************************************)
(* C22: a teardown never fails its caller.  Every async_disable_connection *)
(* and every async_shutdown that has awaited the channel's disconnect      *)
(* returns normally, whether that disconnect succeeded or failed, and      *)
(* leaves the coordinator Disconnected; a teardown that has nothing to     *)
(* await returns in its first step, Disconnected too.                      *)
(***************************************************************************)
\* the awaited disconnect of a teardown ends in this step
TeardownAwaitEnds ==
    dis_pc \in {"disconnecting", "disconnecting_old", "closing"}
      /\ dis_pc' \notin {"disconnecting", "disconnecting_old", "closing"}

\* a teardown runs from call to return in this step
TeardownAtOnce == dis_pc = "idle" /\ dis_pc' = "idle" /\ dis_attempted' # dis_attempted

C22_TeardownNeverFails ==
    [][/\ dis_pc' # "raised"
       /\ (TeardownAwaitEnds \/ TeardownAtOnce) => (dis_pc' = "idle" /\ ~connected')]_vars

\* a teardown whose channel disconnect failed: the channel is still open
C22_Witness ==
    /\ dis_pc = "idle" /\ dis_attempted
    /\ connection_enabled /\ ~connected
    /\ client = "open"
    /\ pc["poll"] = "idle" /\ result.kind = "ok"

(***************************************************************************)
(* C23: whenever the connection is disabled and neither a poll tick nor a  *)
(* disable is in progress, the coordinator is Disconnected and no channel  *)
(* is open, however a disable interleaves with a poll tick.                *)
(***************************************************************************)
Quiescent == pc["poll"] = "idle" /\ dis_pc = "idle"

C23_DisabledMeansDisconnected ==
    (~connection_enabled /\ Quiescent) => (~connected /\ client # "open")

(***************************************************************************)
(* C24: every failure in an enabled poll tick (connect failing, the write  *)
(* failing, a timeout, an invalid response to any of the reads) ends the   *)
(* cycle in that very step: the error counter grows by exactly one, the    *)
(* coordinator becomes Disconnected, the reads made so far are dropped and *)
(* no further frame is written.  A timeout leaves the channel as it is.    *)
(***************************************************************************)
\* the response _send_command returned does not pass read_register's checks
PollResponseInvalid ==
    pc["poll"] = "sleep"
      /\ ~ReadResponseValid(response["poll"], ReadPlan[Len(got) + 1][2])

TickStarts == pc["poll"] = "idle" /\ pc'["poll"] # "idle"

C25_ConnectIffDisconnected ==
    [][/\ TickStarts =>
              /\ connection_enabled
              /\ pc'["poll"] = "connect" <=> ~connected
              /\ pc'["poll"] = "write" <=> connected
       /\ (pc["poll"] = "connect" /\ pc'["poll"] # "connect") =>
              \/ /\ pc'["poll"] = "write"
                 /\ connected' /\ client' = "open"
                 /\ result' = result /\ got' = <<>>
              \/ /\ PollEndsFailing
                 /\ ~connected'
                 /\ UNCHANGED <<reg, air, response_data>>
       /\ pc'["poll"] = "connect" => ~connected']_vars

\* the tick after two failed ones has connected and starts its first read
C25_Witness ==
    /\ pc["poll"] = "write" /\ got = <<>>
    /\ connected /\ client = "open"
    /\ consecutive_errors = 2
    /\ connection_enabled

(***************************************************************************)
(* C26: a successful poll cycle writes exactly 13 read commands, in the    *)
(* order status, settings, temperatures, input voltage, protection         *)
(* settings, protection status, energy counters, backlight, output state,  *)
(* output mode, buzzer, power-on-boot, take-out; a command is dispatched   *)
(* only at the start of the tick or when _send_command has returned the    *)
(* response to the command before it.                                      *)
(***************************************************************************)
CycleOrder ==
    <<"status", "settings", "temperatures", "input_voltage", "protection_settings",
      "protection_status", "energy_counters", "backlight", "output_state",
      "output_mode", "buzzer", "power_on_boot", "take_out">>

\* the read each getter of rk6006.py makes: first register and count
GetterRead(name) ==
    CASE name = "status" -> <<REG_VOLTAGE_READ, 4>>
      [] name = "settings" -> <<REG_VOLTAGE_SET, 2>>
      [] name = "temperatures" -> <<REG_TEMP_INT, 2>>
      [] name = "input_voltage" -> <<REG_INPUT_VOLTAGE, 1>>
      [] name = "protection_settings" -> <<REG_OVP, 2>>
      [] name = "protection_status" -> <<REG_PROTECTION, 1>>
      [] name = "energy_counters" -> <<REG_AH_H, 4>>
      [] name = "backlight" -> <<REG_BACKLIGHT, 1>>
      [] name = "output_state" -> <<REG_OUTPUT_STATE, 1>>
      [] name = "output_mode" -> <<REG_OUTPUT_MODE, 1>>
      [] name = "buzzer" -> <<REG_BUZZER, 1>>
      [] name = "power_on_boot" -> <<REG_POWER_ON_BOOT, 1>>
      [] name = "take_out" -> <<REG_TAKE_OUT, 1>>

\* the poll's command frame is written to the channel in this step
PollWrites == pc["poll"] = "write" /\ pc'["poll"] \in {"wait", "woken"}

C26_ThirteenReadsInOrder ==
    [][/\ PollWrites =>
              /\ Len(got) < Len(CycleOrder)
              /\ LET read == GetterRead(CycleOrder[Len(got) + 1])
                 IN  Command("poll") =
                         build_modbus_command(SLAVE_ID, FUNC_READ, read[1], read[2])
       /\ (pc["poll"] # "write" /\ pc'["poll"] = "write") =>
              \/ pc["poll"] \in {"idle", "connect"} /\ got = <<>> /\ got' = <<>>
              \/ /\ pc["poll"] = "sleep"
                 /\ Len(response["poll"]) >= 5
                 /\ Len(got') = Len(got) + 1
       /\ PollEndsOk => (pc["poll"] = "sleep" /\ Len(got) = Len(CycleOrder) - 1)]_vars

\* the response to the 13th read has been received
C26_Witness ==
    /\ pc["poll"] = "sleep"
    /\ Len(got) = 12
    /\ response["poll"] = sent["poll"]
    /\ Len(response["poll"]) = 7

(***************************************************************************)
(* C27: once completion has been signalled for a command, the bytes of the *)
(* completed response are settled: a fragment that arrives after the       *)
(* signal and before the next command is dispatched is not appended to the *)
(* bytes the signalled caller is handed.                                   *)
(***************************************************************************)
\* a notification fragment reaches the handler in this step
FragmentArrives == Len(air') < Len(air)

C27_BufferClearedOnCompletion ==
    [][(response_event /\ FragmentArrives) =>
           \A t \in Tasks :
               (pc[t] = "woken" /\ pc'[t] = "woken") => response_data' = response_data]_vars

(***************************************************************************)
(* C28: a malformed response is fatal to its command and never retried.    *)
(* A read of count registers whose response is shorter than                *)
(* 3 + 2*count + 2 bytes or whose byte-count field is not 2*count, and a   *)
(* write whose response is shorter than 8 bytes, make the call fail in the *)
(* step in which the response is examined, with no frame written; and a    *)
(* frame is written only once per read_register or write_register call: a  *)
(* new write starts only with a new call or after the previous command's   *)
(* response passed its checks.                                             *)
(***************************************************************************)
\* the number of registers the running command of the "set" caller reads
\* (0: it is a write)
RunningReadCount ==
    IF set_op \in MemOps THEN MemReadCount(set_op, Len(set_got) + 1) ELSE 0

\* the response handed to the "set" caller is malformed as the claim says
Malformed ==
    LET resp == response["set"]
        count == RunningReadCount
    IN  IF count > 0
        THEN Len(resp) < 3 + 2 * count + 2 \/ resp[3] # 2 * count
        ELSE Len(resp) < 8

C28_MalformedIsFatal ==
    [][/\ (pc["set"] = "sleep" /\ pc'["set"] # "sleep" /\ Malformed) =>
              /\ SetEndsFailing
              /\ UNCHANGED <<reg, air, response_data, response_event>>
       /\ (pc["set"] # "write" /\ pc'["set"] = "write") =>
              \/ pc["set"] = "idle"
              \/ /\ pc["set"] = "sleep" /\ ~Malformed
                 /\ Len(set_got') = Len(set_got) + 1]_vars

\* recall_memory is handed a read response with the right byte count, cut short
C28_Witness ==
    /\ set_op = "recall_memory"
    /\ pc["set"] = "sleep"
    /\ Len(response["set"]) \in 5..12
    /\ response["set"][3] = 8

(***************************************************************************)
(* C29: while a caller is in the quiescence delay that follows its         *)
(* successful exchange (the sleep at the end of _send_command), no command *)
(* frame is written to the channel, whichever caller it comes from.        *)
(***************************************************************************)
\* caller u's frame is written to the channel in this step
FrameWritten(u) == pc[u] = "write" /\ pc'[u] \in {"wait", "woken"}

C29_QuiescenceRespected ==
    [][(\E t \in Tasks : pc[t] = "sleep") => ~(\E u \in Tasks : FrameWritten(u))]_vars

(***************************************************************************)
(* C30: for every slot s in 0..9, save_memory writes exactly the four      *)
(* registers base + 4s .. base + 4s + 3, in this order and holding the     *)
(* voltage set point, the current set point, the OVP and the OCP limit;    *)
(* recall_memory reads exactly those four registers with one read of       *)
(* count 4; the registers of two different slots never overlap.            *)
(***************************************************************************)
SlotRegs(slot) == (REG_MEMORY_BASE + 4 * slot)..(REG_MEMORY_BASE + 4 * slot + 3)

SlotsDisjoint ==
    \A a, b \in 0..9 : a # b => SlotRegs(a) \cap SlotRegs(b) = {}

\* the live registers whose values save_memory stores, in the order of the claim
SavedFrom == <<REG_VOLTAGE_SET, REG_CURRENT_SET, REG_OVP, REG_OCP>>
SavedScale == <<100, 1000, 100, 1000>>

C30_SlotLayout ==
    [][/\ SlotsDisjoint
       /\ (FrameWritten("set") /\ set_op \in MemOps) =>
              LET k == Len(set_got) + 1
                  base == REG_MEMORY_BASE + 4 * set_arg
                  frame == Command("set")
              IN  /\ set_arg \in 0..9
                  /\ IF set_op = "save_memory"
                     THEN /\ k <= 6
                          /\ k <= 2 => frame[2] = FUNC_READ /\ reg' = reg
                          /\ k >= 3 =>
                               /\ frame = build_modbus_command(
                                              SLAVE_ID, FUNC_WRITE, base + (k - 3),
                                              MemWord(InitReg[SavedFrom[k - 2]],
                                                      SavedScale[k - 2]))
                               /\ \A a \in RegAddrs :
                                      reg'[a] # reg[a] => a = base + (k - 3)
                     ELSE /\ k <= 5
                          /\ k = 1 =>
                               /\ frame = build_modbus_command(
                                              SLAVE_ID, FUNC_READ, base, 4)
                               /\ reg' = reg
                          /\ k > 1 => frame[2] = FUNC_WRITE]_vars

\* save_memory(9) has returned: the four registers of slot 9 hold the live values
C30_Witness ==
    /\ set_op = "save_memory" /\ set_arg = 9 /\ set_result = "ok"
    /\ reg[116] = reg[REG_VOLTAGE_SET] /\ reg[117] = reg[REG_CURRENT_SET]
    /\ reg[118] = reg[REG_OVP] /\ reg[119] = reg[REG_OCP]
    /\ reg[116] # InitReg[116]

(***************************************************************************)
(* C31: get_status makes one read of 4 registers at 0x000A and the         *)
(* snapshot holds voltage = word 0, current = word 1 and                   *)
(* power = (word 2 << 16) | word 3 of it, each in its unit; the energy     *)
(* counters come from one read of 4 registers at 0x0026, amp-hours from    *)
(* words 0 and 1 and watt-hours from words 2 and 3, the high word at the   *)
(* lower address; for all words of 16 bits.                                *)
(***************************************************************************)
\* (high << 16) | low in the unit of the snapshot, as base-65536 digits
ShiftedOr(high, low) ==
    <<high * Res + (low * Res) \div 65536, (low * Res) % 65536>>

C31_StatusDecoding ==
    /\ [](  (result.kind = "ok" /\ Truthy(data)) =>
               /\ data[1]["voltage"] = reg[10] * Res
               /\ data[1]["current"] = reg[11] * Res
               /\ data[1]["power"] = ShiftedOr(reg[12], reg[13])
               /\ data[1]["amp_hours"] = ShiftedOr(reg[38], reg[39])
               /\ data[1]["watt_hours"] = ShiftedOr(reg[40], reg[41]))
    /\ [][PollWrites =>
             /\ Len(got) = 0 =>
                    Command("poll") = build_modbus_command(SLAVE_ID, FUNC_READ, 10, 4)
             /\ Len(got) = 6 =>
                    Command("poll") = build_modbus_command(SLAVE_ID, FUNC_READ, 38, 4)]_vars

\* a successful cycle with the high word of the power at 65535 and a low
\* word whose scaling carries into the high digit
C31_Witness ==
    /\ result.kind = "ok" /\ Truthy(data)
    /\ reg[12] = 65535 /\ reg[13] = 32768
    /\ reg[10] = 1 /\ reg[11] = 32767
    /\ data[1]["power"] = <<655355, 0>>

(***************************************************************************)
(* C32: with the connection enabled, async_setup_entry completes only      *)
(* after a first refresh that read the device: when the device cannot be   *)
(* reached the setup fails with ConfigEntryNotReady and never completes    *)
(* with an empty snapshot.                                                 *)
(***************************************************************************)
C32_UnreachableFailsSetup ==
    (connection_enabled /\ setup = "ready") => (result.kind = "ok" /\ Truthy(data))

(***************************************************************************)
(* C33: the bytes _send_command returns for a command were all sent by the *)
(* device in reply to that command; the late reply to an earlier command   *)
(* that timed out is neither returned as nor mixed into the response to    *)
(* the next command.                                                       *)
(***************************************************************************)
C33_LateReplyNotReturned ==
    \A t \in Tasks :
        pc[t] = "sleep" =>
            /\ Len(response[t]) <= Len(sent[t])
            /\ response[t] = SubSeq(sent[t], 1, Len(response[t]))

(***************************************************************************)
(* C34: a successful setter is not lost to a poll that runs concurrently.  *)
(* When a poll cycle that read the old set-point (get_settings, the second *)
(* read) ends successfully after async_set_voltage(v) has written the      *)
(* register and returned, the snapshot it stores holds v under             *)
(* "voltage_set".                                                          *)
(***************************************************************************)
\* the cycle read the set-point before the setter's write reached the
\* device, and the setter has returned successfully
SetterOvertookPoll ==
    /\ set_op = "voltage"
    /\ set_result = "ok"
    /\ pc["set"] = "idle"
    /\ Len(got) >= 2
    /\ got[2][1] # reg[REG_VOLTAGE_SET]
    /\ reg[REG_VOLTAGE_SET] = SetWord(set_op, set_arg)

C34_SetterSurvivesPoll ==
    [][(PollEndsOk /\ SetterOvertookPoll) =>
            data'[1][SetKey(set_op)] = set_arg]_vars

(***************************************************************************)
(* C35: at most one channel to the device is open at any time.  When a     *)
(* tick reconnects after a failed poll, the channel of the earlier connect *)
(* has been closed before connect() opens the new one, so failing and      *)
(* reconnecting polls do not pile up open channels and subscriptions.      *)
(***************************************************************************)
\* connect() returns with a new channel in self.client
Reconnects == pc["poll"] = "connect" /\ pc'["poll"] = "write" /\ client' = "open"

C35_OneChannelOpen == [][Reconnects => client # "open"]_vars

(***************************************************************************)
(* C36: the consecutive-error counter equals the number of enabled poll    *)
(* ticks that failed since the last successful cycle or the last           *)
(* async_enable_connection; it is 0 right after a successful cycle, a      *)
(* failing cycle adds one, and disabled ticks, setters, disable and         *)
(* shutdown leave it alone.                                                *)
(***************************************************************************)
\* a step of a setter
SetterMoves == pc'["set"] # pc["set"] \/ set_result' # set_result

\* a step of async_disable_connection or async_shutdown
TeardownMoves == dis_pc' # dis_pc \/ (connection_enabled /\ ~connection_enabled')

\* a step taken while the connection is and stays disabled and no cycle runs
DisabledStep ==
    /\ ~connection_enabled /\ ~connection_enabled'
    /\ pc["poll"] = "idle" /\ pc'["poll"] = "idle"

C36_CounterCountsFailures ==
    /\ [](consecutive_errors = streak)
    /\ [][/\ PollEndsOk => consecutive_errors' = 0
          /\ PollEndsFailing => consecutive_errors' = consecutive_errors + 1
          /\ SetterMoves => consecutive_errors' = consecutive_errors
          /\ TeardownMoves => consecutive_errors' = consecutive_errors
          /\ DisabledStep => consecutive_errors' = consecutive_errors]_vars

\* two cycles failed, the connection was disabled, a setter failed and a
\* disabled tick ran: the counter still stands at two
C36_Witness ==
    /\ consecutive_errors = 2
    /\ streak = 2
    /\ ~connection_enabled
    /\ result.kind = "disabled"
    /\ set_result = "error"

(***************************************************************************)
(* C37: the snapshot is absent, empty, or holds exactly the 21 keys of a   *)
(* poll cycle.  It becomes empty only from absent, by a poll that fails    *)
(* below the threshold (so never after a successful cycle); a complete     *)
(* snapshot stays complete, and a setter leaves an absent snapshot absent  *)
(* and an empty one empty.                                                 *)
(***************************************************************************)
Complete(d) == d # NoData /\ DOMAIN d[1] = Keys

C37_SnapshotShape ==
    /\ [](/\ Cardinality(Keys) = 21
          /\ data = NoData \/ data = <<EmptyDict>> \/ Complete(data))
    /\ [][/\ (data' = <<EmptyDict>> /\ data # data') =>
                (data = NoData /\ PollEndsFailing /\ result'.kind = "stale")
          /\ Complete(data) => Complete(data')
          /\ SetterMoves =>
                /\ data = NoData => data' = NoData
                /\ data = <<EmptyDict>> => data' = <<EmptyDict>>]_vars

\* a setter has succeeded on the empty snapshot left by polls that failed
\* up to the threshold, and added nothing to it
C37_Witness ==
    /\ data = <<EmptyDict>>
    /\ set_result = "ok"
    /\ consecutive_errors >= max_consecutive_errors

(***************************************************************************)
(* C38: get_temperature reads the addresses the register map declares:     *)
(* after a successful cycle "temp_internal" is the content of REG_TEMP_INT *)
(* and "temp_external" is decoded from the content of REG_TEMP_EXT.        *)
(***************************************************************************)
C38_TemperatureAddresses ==
    (result.kind = "ok" /\ Truthy(data)) =>
        /\ data[1]["temp_internal"] = reg[REG_TEMP_INT]
        /\ data[1]["temp_external"] = ExternalTemp(reg[REG_TEMP_EXT])

(***************************************************************************)
(* C39: saving to a memory slot touches no live register: for every slot   *)
(* in 0..9 no write frame of save_memory is addressed to REG_OVP, REG_OCP, *)
(* REG_VOLTAGE_SET or REG_CURRENT_SET.                                     *)
(***************************************************************************)
LiveRegs == {REG_OVP, REG_OCP, REG_VOLTAGE_SET, REG_CURRENT_SET}

\* the register address carried by a frame (bytes 3 and 4, big-endian)
FrameAddress(frame) == frame[3] * 256 + frame[4]

C39_SaveLeavesLiveRegisters ==
    [][(/\ FrameWritten("set")
        /\ set_op = "save_memory"
        /\ set_arg \in 0..9
        /\ Command("set")[2] = FUNC_WRITE) =>
            FrameAddress(Command("set")) \notin LiveRegs]_vars

====
